---------------------------- MODULE Spec2Model ----------------------------
(***************************************************************************)
(* A model of the three LaTeX utilities of the repository:                *)
(*   find_new_figures.py     LaTeXImageExtractor / LaTeXImageManager       *)
(*   latex_bib_processor.py  LaTeXBibProcessor                             *)
(*   reset_figure_names.py   TeXFigureProcessor                            *)
(* Text is a sequence of one-character strings, so that the string         *)
(* functions of the code (strip, split, basename, splitext, find, the      *)
(* regular expressions) are computed and not assumed.                      *)
(***************************************************************************)
EXTENDS Integers, Sequences, FiniteSets, TLC

\* ------------------------------------------------------------------------
\* Text helpers (Python str semantics on sequences of characters)
\* ------------------------------------------------------------------------

Range(s) == {s[i] : i \in 1..Len(s)}

Min2(a, b) == IF a <= b THEN a ELSE b

\* s[i:j] of Python with 0-based i, j already clipped to 0..len
Slice(s, i, j) == IF j <= i THEN <<>> ELSE SubSeq(s, i + 1, j)

\* The least element of a non-empty set of integers
MinOf(S) == CHOOSE x \in S : \A y \in S : x <= y

\* The least element of a set of offsets, -1 when there is none
MinOrNone(S) == IF S = {} THEN -1 ELSE MinOf(S)

\* str.find(sub, start): lowest 0-based index >= start where sub occurs, else -1
Find(s, sub, start) ==
    IF sub = <<>> THEN (IF start <= Len(s) THEN start ELSE -1)
    ELSE MinOrNone({i \in start..(Len(s) - Len(sub)) :
                        s[i + 1] = sub[1] /\ SubSeq(s, i + 1, i + Len(sub)) = sub})

\* str.rfind(ch): highest 0-based index of the character, else -1
RECURSIVE RFindFrom(_, _, _)
RFindFrom(s, ch, i) ==
    IF i < 0 THEN -1 ELSE IF s[i + 1] = ch THEN i ELSE RFindFrom(s, ch, i - 1)

RFind(s, ch) == RFindFrom(s, ch, Len(s) - 1)

StartsWith(s, p) == Len(p) <= Len(s) /\ SubSeq(s, 1, Len(p)) = p

EndsWith(s, p) == Len(p) <= Len(s) /\ SubSeq(s, Len(s) - Len(p) + 1, Len(s)) = p

Contains(s, sub) == Find(s, sub, 0) # -1

Whitespace == {" ", "\t", "\n", "\r"}

\* str.strip()
Strip(s) ==
    LET keep == {i \in 1..Len(s) : s[i] \notin Whitespace}
    IN  IF keep = {} THEN <<>>
        ELSE SubSeq(s, CHOOSE i \in keep : \A j \in keep : i <= j,
                       CHOOSE i \in keep : \A j \in keep : i >= j)

UpperCase == <<"A","B","C","D","E","F","G","H","I","J","K","L","M",
               "N","O","P","Q","R","S","T","U","V","W","X","Y","Z">>

LowerCase == <<"a","b","c","d","e","f","g","h","i","j","k","l","m",
               "n","o","p","q","r","s","t","u","v","w","x","y","z">>

LowerTable ==
    [c \in Range(UpperCase) |-> LowerCase[CHOOSE i \in 1..26 : UpperCase[i] = c]]

LowerChar(c) == IF c \in DOMAIN LowerTable THEN LowerTable[c] ELSE c

\* str.lower()
Lower(s) == [i \in 1..Len(s) |-> LowerChar(s[i])]

Digits == <<"0","1","2","3","4","5","6","7","8","9">>

IsDigit(c) == \E i \in 1..10 : Digits[i] = c

\* f"{n}" for n >= 0
RECURSIVE IntToStr(_)
IntToStr(n) ==
    IF n < 10 THEN <<Digits[n + 1]>>
    ELSE IntToStr(n \div 10) \o <<Digits[(n % 10) + 1]>>

\* The code point of a character, for the characters the model's texts use
\* (Python compares str by code point).
OrdTable ==
    [c \in Range(UpperCase) \cup Range(LowerCase) \cup Range(Digits)
            \cup {"_", ".", "/", " ", ",", "-", "{", "}", "@", "%"} |->
        IF \E i \in 1..26 : UpperCase[i] = c
            THEN 64 + (CHOOSE i \in 1..26 : UpperCase[i] = c)
        ELSE IF \E i \in 1..26 : LowerCase[i] = c
            THEN 96 + (CHOOSE i \in 1..26 : LowerCase[i] = c)
        ELSE IF IsDigit(c)
            THEN 47 + (CHOOSE i \in 1..10 : Digits[i] = c)
        ELSE IF c = "_" THEN 95
        ELSE IF c = "." THEN 46
        ELSE IF c = "/" THEN 47
        ELSE IF c = " " THEN 32
        ELSE IF c = "," THEN 44
        ELSE IF c = "-" THEN 45
        ELSE IF c = "{" THEN 123
        ELSE IF c = "}" THEN 125
        ELSE IF c = "@" THEN 64
        ELSE 37]

Ord(c) == OrdTable[c]

\* s < t for Python str
StrLess(s, t) ==
    \E k \in 1..(Len(t)) :
        /\ k <= Len(s) + 1
        /\ \A i \in 1..(k - 1) : s[i] = t[i]
        /\ (k = Len(s) + 1 \/ Ord(s[k]) < Ord(t[k]))

\* The concatenation of a sequence of sequences
RECURSIVE Flatten(_)
Flatten(ss) == IF ss = <<>> THEN <<>> ELSE Head(ss) \o Flatten(Tail(ss))

\* The sequences over S of length at most n
SeqsUpTo(S, n) == UNION {[1..k -> S] : k \in 0..n}

\* The elements of seq that satisfy Test, in order
SelectSeqIdx(seq, Keep(_)) ==
    LET F[i \in 0..Len(seq)] ==
            IF i = 0 THEN <<>>
            ELSE IF Keep(i) THEN Append(F[i - 1], seq[i]) ELSE F[i - 1]
    IN  F[Len(seq)]


\* Set iteration and sorted(): the elements of a set of texts, ascending
RECURSIVE SortedSeq(_)
SortedSeq(S) ==
    IF S = {} THEN <<>>
    ELSE LET m == CHOOSE x \in S : \A y \in S \ {x} : StrLess(x, y)
         IN  <<m>> \o SortedSeq(S \ {m})

Reverse(s) == [i \in 1..Len(s) |-> s[Len(s) + 1 - i]]

\* The orders in which a set is iterated: Python fixes none; the model takes
\* the ascending and the descending one
IterationOrders(S) == {SortedSeq(S), Reverse(SortedSeq(S))}

\* The subsets of S with at most one element
AtMostOne(S) == {{}} \cup {{x} : x \in S}

\* ------------------------------------------------------------------------
\* Bounds and input pools
\* ------------------------------------------------------------------------

\* \includegraphics commands per document of the image comparison
MaxImgCmds == 2

\* Raw paths as captured by includegraphics_pattern (group 1)
ImgPathPool ==
    { <<"a", ".", "p", "n", "g">>,
      <<" ", "d", "/", "a", ".", "p", "n", "g", " ">>,
      <<"d", "/", "b">>,
      <<"c", ".", "p", "d", "f">> }

\* An image document: the captures of includegraphics_pattern.findall, in order
ImgDocs == SeqsUpTo(ImgPathPool, MaxImgCmds)

DEFAULT_IMAGE_EXTENSIONS ==
    << <<".", "p", "d", "f">>, <<".", "p", "n", "g">>, <<".", "j", "p", "g">>,
       <<".", "j", "p", "e", "g">>, <<".", "e", "p", "s">>, <<".", "s", "v", "g">> >>

\* The image_extensions argument of the constructor (<<>>: None or empty)
ExtConfigs == { <<>>, << <<".", "p", "d", "f">>, <<".", "p", "n", "g">> >> }

\* Raw paths for the filename extraction of extract_images_from_tex: with and
\* without directory, with and without extension, names that differ in case
\* only, and names made of dots
ImgNamePool ==
    { <<"a", ".", "p", "n", "g">>, <<" ", "d", "/", "a", ".", "p", "n", "g", " ">>, <<"d", "/", "b">>, <<"e", "/", "A", ".", "p", "n", "g">>, <<"B">>, <<".", "p", "n", "g">>, <<"x", ".", "y", "/", "b", ".", "t", "a", "r", ".", "g", "z">>, <<"f", "/">> }

ImgNameDocs == SeqsUpTo(ImgNamePool, MaxImgCmds)

\* Pieces a LaTeX document of the bibliography processor is made of
MaxTexPieces == 2

TexPiecePool ==
    { <<"\\", "c", "i", "t", "e", "{", "b", "}", " ">>,          \* \cite{b}
      <<"\\", "c", "i", "t", "e", "p", "{", "a", ",", "c", "}">>,        \* \citep{a,c}
      <<"\\", "C", "i", "t", "e", "t", "{", " ", "a", " ", ",", "B", "}">> }     \* \Citet{ a ,B}

TexDocs == {Flatten(d) : d \in SeqsUpTo(TexPiecePool, MaxTexPieces)}

\* Pieces a .bib file is made of
MaxBibPieces == 2

BibPiecePool ==
    { <<"@", "x", "{", "a", ",", "\n", " ", "t", "\n", "}", "\n", "\n">>,    \* @x{a,  / t / } / blank line
      <<"@", "y", "{", "b", ",", "u", "}", "\n">>,           \* @y{b,u}
      <<"%", " ", "n", "\n", "@", "z", "{", "a", ",", "v", "}", "\n">> }     \* % n / @z{a,v}

BibFiles == {Flatten(d) : d \in SeqsUpTo(BibPiecePool, MaxBibPieces)}

\* Figure environments per document of the figure renamer
MaxFigures == 2

\* Calls of analyze_all_figures on one processor
MaxAnalyses == 2

\* The figure environments a document of the figure renamer is made of
FigBlockPool ==
    { <<"\\", "b", "e", "g", "i", "n", "{", "f", "i", "g", "u", "r", "e", "}", "\\", "i", "n", "c", "l", "u", "d", "e", "g", "r", "a", "p", "h", "i", "c", "s", "{", "a", ".", "p", "n", "g", "}", "\\", "e", "n", "d", "{", "f", "i", "g", "u", "r", "e", "}">>,
      <<"\\", "b", "e", "g", "i", "n", "{", "f", "i", "g", "u", "r", "e", "*", "}", "\\", "i", "n", "c", "l", "u", "d", "e", "g", "r", "a", "p", "h", "i", "c", "s", "{", "f", "i", "g", "_", "1", "_", "a", ".", "p", "n", "g", "}", "\\", "e", "n", "d", "{", "f", "i", "g", "u", "r", "e", "*", "}">>,
      <<"\\", "b", "e", "g", "i", "n", "{", "f", "i", "g", "u", "r", "e", "}", "\\", "i", "n", "c", "l", "u", "d", "e", "g", "r", "a", "p", "h", "i", "c", "s", "[", "w", "]", "{", " ", "d", "/", "f", "i", "g", "_", "s", "1", "_", "a", ".", "p", "n", "g", " ", "}", "\\", "i", "n", "c", "l", "u", "d", "e", "g", "r", "a", "p", "h", "i", "c", "s", "{", "f", "i", "g", "s", "/", "c", "}", "\\", "e", "n", "d", "{", "f", "i", "g", "u", "r", "e", "}">>,
      <<"\\", "b", "e", "g", "i", "n", "{", "f", "i", "g", "u", "r", "e", "}", "\\", "i", "n", "c", "l", "u", "d", "e", "g", "r", "a", "p", "h", "i", "c", "s", "{", "d", "/", "b", "}", "\\", "e", "n", "d", "{", "f", "i", "g", "u", "r", "e", "}">> }

AppendixLine == <<"\\", "a", "p", "p", "e", "n", "d", "i", "x", "\n">>

\* The document made of the environments `blocks`, the \appendix line after
\* the first k of them
FigDoc(blocks, k) ==
    Flatten(SubSeq(blocks, 1, k)) \o AppendixLine
        \o Flatten(SubSeq(blocks, k + 1, Len(blocks)))

\* The documents: up to MaxFigures environments, without an \appendix line or
\* with one at any place between them
FigDocs ==
    UNION {{Flatten(blocks)} \cup {FigDoc(blocks, k) : k \in 0..Len(blocks)} :
            blocks \in SeqsUpTo(FigBlockPool, MaxFigures)}

\* Two environments, the command of the second one written inside the
\* braces of the command of the first
NestedBlockPool ==
    { <<"\\", "b", "e", "g", "i", "n", "{", "f", "i", "g", "u", "r", "e", "}", "\\", "i", "n", "c", "l", "u", "d", "e", "g", "r", "a", "p", "h", "i", "c", "s", "{", "a", ".", "p", "n", "g", "}", "\\", "e", "n", "d", "{", "f", "i", "g", "u", "r", "e", "}">>,
      <<"\\", "b", "e", "g", "i", "n", "{", "f", "i", "g", "u", "r", "e", "}", "\\", "i", "n", "c", "l", "u", "d", "e", "g", "r", "a", "p", "h", "i", "c", "s", "{", "\\", "i", "n", "c", "l", "u", "d", "e", "g", "r", "a", "p", "h", "i", "c", "s", "{", "a", ".", "p", "n", "g", "}", "\\", "e", "n", "d", "{", "f", "i", "g", "u", "r", "e", "}">> }

NestedFigDocs == {Flatten(blocks) : blocks \in SeqsUpTo(NestedBlockPool, MaxFigures)}

\* Figure environments whose images go to the same file of the output
\* directory: the same basename in two directories, and an image next to
\* one that carries the name the first one is given; and a figure of one image
SameTargetBlockPool ==
    { <<"\\", "b", "e", "g", "i", "n", "{", "f", "i", "g", "u", "r", "e", "}", "\\", "i", "n", "c", "l", "u", "d", "e", "g", "r", "a", "p", "h", "i", "c", "s", "{", "d", "/", "a", ".", "p", "n", "g", "}", "\\", "i", "n", "c", "l", "u", "d", "e", "g", "r", "a", "p", "h", "i", "c", "s", "{", "e", "/", "a", ".", "p", "n", "g", "}", "\\", "e", "n", "d", "{", "f", "i", "g", "u", "r", "e", "}">>,
      <<"\\", "b", "e", "g", "i", "n", "{", "f", "i", "g", "u", "r", "e", "}", "\\", "i", "n", "c", "l", "u", "d", "e", "g", "r", "a", "p", "h", "i", "c", "s", "{", "a", ".", "p", "n", "g", "}", "\\", "i", "n", "c", "l", "u", "d", "e", "g", "r", "a", "p", "h", "i", "c", "s", "{", "f", "i", "g", "_", "1", "_", "a", ".", "p", "n", "g", "}", "\\", "e", "n", "d", "{", "f", "i", "g", "u", "r", "e", "}">>,
      <<"\\", "b", "e", "g", "i", "n", "{", "f", "i", "g", "u", "r", "e", "}", "\\", "i", "n", "c", "l", "u", "d", "e", "g", "r", "a", "p", "h", "i", "c", "s", "{", "b", ".", "p", "n", "g", "}", "\\", "e", "n", "d", "{", "f", "i", "g", "u", "r", "e", "}">> }

SameTargetFigDocs == {Flatten(blocks) : blocks \in SeqsUpTo(SameTargetBlockPool, MaxFigures)}

\* Calls of generate_new_filename on one name
MaxRenames == 2

\* The figure numbers of the expected prefixes
MaxFigNumber == 10

\* Image paths whose filename is renamed: plain names, names in a directory,
\* names with a numbered prefix, names that only look like one, and a path
\* that ends with "/"
GenPathPool ==
    { <<"a", ".", "p", "n", "g">>, <<"d", "/", "a", ".", "p", "n", "g">>, <<"f", "i", "g", "s", "/">>, <<"f", "i", "g", "_", "1", "_", "a", ".", "p", "n", "g">>, <<"d", "/", "f", "i", "g", "_", "s", "1", "_", "a", ".", "p", "n", "g">>,
      <<"f", "i", "g", "_", "1", "2", "_", "x", ".", "p", "d", "f">>, <<"f", "i", "g", "_", "1", "_">>, <<"f", "i", "g", "_", "s", "_", "a">>, <<"f", "i", "g", "_", "1", "_", "2", "_", "c">>, <<"F", "I", "G", "_", "1", "_", "a">>,
      <<"f", "i", "g", "_", "_", "a">>, <<"x", "/", "y", "/", "f", "i", "g", "_", "s", "1", "2", "_", "f", "i", "g", "_", "1", "_", "z", ".", "e", "p", "s">> }

\* ------------------------------------------------------------------------
\* State
\* ------------------------------------------------------------------------

VARIABLES
    \* LaTeXImageExtractor / LaTeXImageManager (find_new_figures.py)
    img_pc,            \* "off" | "ready" | "compared" | "copied"
    image_extensions,  \* self.image_extensions
    old_tex, new_tex,  \* the two documents on disk
    comparison,        \* the ComparisonResult returned by compare_tex_files
    copy_result,       \* the CopyResult returned by copy_images
    copy_log,          \* the per-item lines copy_images logs
    img_dst_before,    \* destination directory before copy_images: name -> content
    img_src,           \* the files of the source directory (names)
    img_copy_fails,    \* the images whose shutil.copy2 raises
    img_dst,           \* destination directory now: name -> content
    img_old_exists,    \* the old .tex file exists
    img_new_exists,    \* the new .tex file exists
    img_src_dir_exists,\* the source directory exists
    img_dst_dir_made,  \* copy_images created (or found) the destination directory
    img_raised,        \* "none", or what the exception that left the workflow names
    \* LaTeXBibProcessor (latex_bib_processor.py)
    bib_last,          \* "off", or the method of the processor that ran last
    bib_tex_file,      \* the text of the file self.tex_file names
    bib_bib_file,      \* the text of the file self.bib_file names
    bib_tex_content,   \* self.tex_content
    bib_content,       \* self.bib_content
    cited_keys,        \* self.cited_keys
    unique_cited_keys, \* self.unique_cited_keys
    bib_entries,       \* self.bib_entries: key -> entry text
    bib_keys,          \* self.bib_keys
    missing_keys,      \* self.missing_keys
    unused_keys,       \* self.unused_keys
    ordered_entries,   \* self.ordered_entries: the (key, entry) items in order
    bib_tex_exists,    \* the file self.tex_file names exists
    bib_bib_exists,    \* the file self.bib_file names exists
    bib_out_written,   \* the output .bib file exists
    bib_out_text,      \* the text of the output .bib file
    bib_saved,         \* "none", or the value the last save_ordered_bib returned
    bib_returned,      \* "none", or the value execute_full_process returned
    bib_error,         \* "none", or the file execute_full_process reported as not found
    \* TeXFigureProcessor (reset_figure_names.py)
    fig_last,            \* "off", or the method of the processor that ran last
    fig_rerun,           \* the processor works on the text a previous run wrote
    fig_tex_file,        \* the text of the file self.tex_file names
    fig_tex_content,     \* self.tex_content
    modifications,       \* self.modifications: the (old, new) items in order
    results,             \* self.results
    figure_environments, \* self.figure_environments
    main_figures,        \* main_figures of the last categorize_figures_by_position
    appendix_figures,    \* appendix_figures of the same call
    fig_analyses,        \* calls of analyze_all_figures on this processor
    tex_saved,           \* the value the last save_modified_tex returned
    fig_out_written,     \* the output .tex file exists
    fig_out_text,        \* the text of the output .tex file
    fig_save_log,        \* the commands the last save_modified_tex warned it could not find
    fig_src,             \* the source image files that exist (paths)
    fig_copy_fails,      \* the source files whose shutil.copy2 raises
    copy_stats,          \* the stats copy_and_rename_figures returned
    fig_copy_log,        \* the per-item lines copy_and_rename_figures logs
    fig_dst_before,      \* output directory before the copy: name -> content
    fig_dst,             \* output directory now: name -> content
    fig_tex_exists,      \* the file the processor is constructed with exists
    fig_raised,          \* "none", or the exception that left the constructor or the run
    fig_returned,        \* <<>>, or <<the list execute_full_processing returned>>
    \* generate_new_filename called again on the name it returned
    gen_path,            \* the image path the filename is taken from
    gen_filename,        \* the filename extract_directory_and_filename returned for it
    gen_prefixes,        \* the expected_prefix of each call so far
    gen_new_filenames    \* the filename each call returned

imgVars == <<img_pc, image_extensions, old_tex, new_tex, comparison,
             copy_result, copy_log, img_src, img_copy_fails, img_dst_before, img_dst,
             img_old_exists, img_new_exists, img_src_dir_exists,
             img_dst_dir_made, img_raised>>

imgRunVars == <<img_old_exists, img_new_exists, img_src_dir_exists, img_raised>>

bibVars == <<bib_last, bib_tex_file, bib_bib_file, bib_tex_content, bib_content,
             cited_keys, unique_cited_keys, bib_entries, bib_keys,
             missing_keys, unused_keys, ordered_entries,
             bib_tex_exists, bib_bib_exists, bib_out_written, bib_out_text,
             bib_saved, bib_returned, bib_error>>

bibRunVars == <<bib_tex_exists, bib_bib_exists, bib_out_written, bib_out_text,
                bib_saved, bib_returned, bib_error>>

genVars == <<gen_path, gen_filename, gen_prefixes, gen_new_filenames>>

figVars == <<fig_last, fig_rerun, fig_tex_file, fig_tex_content, modifications, results,
             figure_environments, main_figures, appendix_figures, fig_analyses,
             tex_saved, fig_out_written, fig_out_text, fig_save_log, fig_src, fig_copy_fails, copy_stats,
             fig_copy_log, fig_dst_before, fig_dst,
            fig_tex_exists, fig_raised, fig_returned, genVars>>

figRunVars == <<fig_tex_exists, fig_raised, fig_returned, genVars>>

\* ------------------------------------------------------------------------
\* find_new_figures.py
\* ------------------------------------------------------------------------

\* LaTeXImageExtractor.__init__: image_extensions or DEFAULT_IMAGE_EXTENSIONS
InitExtensions(cfg) == IF cfg = <<>> THEN DEFAULT_IMAGE_EXTENSIONS ELSE cfg

\* (mutant) the whole path kept as the filename
Basename_with_directory(path) == path

\* os.path.basename
Basename(path) == Slice(path, RFind(path, "/") + 1, Len(path))

\* os.path.splitext: <<root, ext>>; a name made of leading dots only has no ext
Splitext(p) ==
    LET sepIndex == RFind(p, "/")
        dotIndex == RFind(p, ".")
    IN  IF dotIndex > sepIndex
           /\ \E k \in (sepIndex + 1)..(dotIndex - 1) : p[k + 1] # "."
        THEN <<Slice(p, 0, dotIndex), Slice(p, dotIndex, Len(p))>>
        ELSE <<p, <<>>>>

\* The filenames one captured path contributes (loop body of extract_images_from_tex)
ImageFilesOf(raw, exts) ==
    LET image_path == Strip(raw)
        filename   == Basename(image_path)
        ne         == Splitext(filename)
    IN  IF ne[2] # <<>> THEN {filename}
        ELSE {ne[1] \o exts[i] : i \in 1..Len(exts)}

extract_images_from_tex(doc, exts) ==
    UNION {ImageFilesOf(doc[i], exts) : i \in 1..Len(doc)}

compare_tex_files_mutant(old, new, exts) ==
    LET old_images == extract_images_from_tex(old, exts)
        new_images == extract_images_from_tex(new, exts)
    IN  [old_images     |-> old_images,
         new_images     |-> new_images,
         added_images   |-> old_images \ new_images,
         removed_images |-> new_images \ old_images,
         common_images  |-> old_images \cap new_images]

compare_tex_files(old, new, exts) ==
    LET old_images == extract_images_from_tex(old, exts)
        new_images == extract_images_from_tex(new, exts)
    IN  [old_images     |-> old_images,
         new_images     |-> new_images,
         added_images   |-> new_images \ old_images,
         removed_images |-> old_images \ new_images,
         common_images  |-> old_images \cap new_images]

NoComparison ==
    [old_images |-> {}, new_images |-> {}, added_images |-> {},
     removed_images |-> {}, common_images |-> {}]

NoCopyResult == [copied |-> <<>>, missing |-> <<>>, failed |-> <<>>, total_attempted |-> 0]

EmptyDir == [n \in {} |-> <<>>]

\* The content of file `name` in the source directory, and of a file that was
\* in the destination directory before the run
SrcContent(name) == [origin |-> "source", name |-> name]
OldContent(name) == [origin |-> "destination", name |-> name]

\* (mutant) the copy made whether the destination exists or not
CopyImageStep_overwriting(st, image, src_names, failing) ==
    IF image \in src_names
    THEN IF image \in failing
         THEN [st EXCEPT !.failed = Append(@, image),
                         !.log = Append(@, [image |-> image, line |-> "failed"])]
         ELSE [st EXCEPT !.copied = Append(@, image),
                         !.dst = [n \in DOMAIN st.dst \cup {image} |->
                                     IF n = image THEN SrcContent(image)
                                     ELSE st.dst[n]],
                         !.log = Append(@, [image |-> image, line |-> "copied"])]
    ELSE [st EXCEPT !.missing = Append(@, image),
                    !.log = Append(@, [image |-> image, line |-> "missing"])]

\* (mutant) an image whose destination exists listed as failed
CopyImageStep_skipped_as_failed(st, image, src_names, failing) ==
    IF image \in src_names
    THEN IF image \in DOMAIN st.dst \/ image \in failing
         THEN [st EXCEPT !.failed = Append(@, image),
                         !.log = Append(@, [image |-> image, line |-> "failed"])]
         ELSE [st EXCEPT !.copied = Append(@, image),
                         !.dst = [n \in DOMAIN st.dst \cup {image} |->
                                     IF n = image THEN SrcContent(image)
                                     ELSE st.dst[n]],
                         !.log = Append(@, [image |-> image, line |-> "copied"])]
    ELSE [st EXCEPT !.missing = Append(@, image),
                    !.log = Append(@, [image |-> image, line |-> "missing"])]

\* a loop body that records nothing for an image it does not copy (mutant)
CopyImageStep_unrecorded(st, image, src_names, failing) ==
    IF image \in src_names /\ image \notin DOMAIN st.dst /\ image \notin failing
    THEN [st EXCEPT !.copied = Append(@, image),
                    !.dst = [n \in DOMAIN st.dst \cup {image} |->
                                IF n = image THEN SrcContent(image) ELSE st.dst[n]],
                    !.log = Append(@, [image |-> image, line |-> "copied"])]
    ELSE st

\* One iteration of the loop of copy_images. st: the accumulators and the
\* destination directory; src_names: the files of the source directory;
\* failing: the files shutil.copy2 raises on.
CopyImageStep(st, image, src_names, failing) ==
    IF image \in src_names
    THEN IF image \in DOMAIN st.dst
         THEN [st EXCEPT !.log = Append(@, [image |-> image, line |-> "skipped"])]
         ELSE IF image \in failing
              THEN [st EXCEPT !.failed = Append(@, image),
                              !.log = Append(@, [image |-> image, line |-> "failed"])]
              ELSE [st EXCEPT !.copied = Append(@, image),
                              !.dst = [n \in DOMAIN st.dst \cup {image} |->
                                          IF n = image THEN SrcContent(image)
                                          ELSE st.dst[n]],
                              !.log = Append(@, [image |-> image, line |-> "copied"])]
    ELSE [st EXCEPT !.missing = Append(@, image),
                    !.log = Append(@, [image |-> image, line |-> "missing"])]

\* copy_images: the loop over image_list in iteration order `order`
copy_images(order, src_names, dst0, failing) ==
    LET F[i \in 0..Len(order)] ==
            IF i = 0
            THEN [copied |-> <<>>, missing |-> <<>>, failed |-> <<>>,
                  log |-> <<>>, dst |-> dst0]
            ELSE CopyImageStep(F[i - 1], order[i], src_names, failing)
    IN  F[Len(order)]

\* ------------------------------------------------------------------------
\* latex_bib_processor.py
\* ------------------------------------------------------------------------

\* self.citation_patterns: the command name of each pattern r'\\NAME\{([^}]+)\}'
citation_patterns ==
    << <<"c", "i", "t", "e">>, <<"c", "i", "t", "e", "p">>, <<"c", "i", "t", "e", "t">>, <<"c", "i", "t", "e", "a", "l", "p">>, <<"c", "i", "t", "e", "a", "l", "t">>, <<"c", "i", "t", "e", "a", "u", "t", "h", "o", "r">>,
       <<"c", "i", "t", "e", "y", "e", "a", "r">>, <<"n", "o", "c", "i", "t", "e">>, <<"C", "i", "t", "e">>, <<"C", "i", "t", "e", "p">>, <<"C", "i", "t", "e", "t">> >>

\* the match with the command name compared letter for letter (mutant)
CiteMatchAt_case_sensitive(text, name, p) ==
    LET head  == <<"\\">> \o name \o <<"{">>
        from  == p + Len(head)
        close == Find(text, <<"}">>, from)
    IN  IF /\ from <= Len(text)
           /\ Slice(text, p, from) = head
           /\ close > from
        THEN [ok |-> TRUE, pos |-> p, arg |-> Slice(text, from, close), stop |-> close + 1]
        ELSE [ok |-> FALSE, pos |-> p, arg |-> <<>>, stop |-> p + 1]

\* The match of r'\\NAME\{([^}]+)\}' under re.IGNORECASE that starts at the
\* 0-based offset p of text, if there is one: the command name compared
\* without case, then at least one character other than "}", then "}".
CiteMatchAt(text, name, p) ==
    LET head  == <<"\\">> \o name \o <<"{">>
        from  == p + Len(head)
        close == Find(text, <<"}">>, from)
    IN  IF /\ from <= Len(text)
           /\ Lower(Slice(text, p, from)) = Lower(head)
           /\ close > from
        THEN [ok |-> TRUE, pos |-> p, arg |-> Slice(text, from, close), stop |-> close + 1]
        ELSE [ok |-> FALSE, pos |-> p, arg |-> <<>>, stop |-> p + 1]

\* re.finditer(pattern, text, re.IGNORECASE) from offset p on: the matches
\* left to right, none overlapping the one before
RECURSIVE CiteFindIter(_, _, _)
CiteFindIter(text, name, p) ==
    LET q == Find(text, <<"\\">>, p)
    IN  IF q = -1 THEN <<>>
        ELSE LET m == CiteMatchAt(text, name, q)
             IN  IF m.ok THEN <<m>> \o CiteFindIter(text, name, m.stop)
                 ELSE CiteFindIter(text, name, q + 1)

\* str.split(sep) for a one-character sep
RECURSIVE Split(_, _)
Split(s, sep) ==
    LET i == Find(s, <<sep>>, 0)
    IN  IF i = -1 THEN <<s>>
        ELSE <<Slice(s, 0, i)>> \o Split(Slice(s, i + 1, Len(s)), sep)

\* The (pos, key) pairs of one match: keys_str.split(','), each stripped,
\* the empty ones skipped
KeysOfMatch(m) ==
    LET parts == Split(m.arg, ",")
        keys  == [i \in 1..Len(parts) |-> Strip(parts[i])]
    IN  [i \in 1..Len(SelectSeq(keys, LAMBDA k : k # <<>>)) |->
            [pos |-> m.pos, key |-> SelectSeq(keys, LAMBDA k : k # <<>>)[i]]]

\* citations_with_pos before the sort: pattern after pattern, match after match
CitationsWithPos(text) ==
    Flatten([i \in 1..Len(citation_patterns) |->
        LET ms == CiteFindIter(text, citation_patterns[i], 0)
        IN  Flatten([j \in 1..Len(ms) |-> KeysOfMatch(ms[j])])])

\* (mutant) the sort left out: the pairs stay in pattern order
SortByPos_unsorted(seq) == seq

\* list.sort(key=lambda x: x[0]): ascending by pos, stable
RECURSIVE SortByPos(_)
SortByPos(seq) ==
    IF seq = <<>> THEN <<>>
    ELSE LET i == CHOOSE i \in 1..Len(seq) :
                    /\ \A j \in 1..Len(seq) : seq[i].pos <= seq[j].pos
                    /\ \A j \in 1..(i - 1) : seq[j].pos # seq[i].pos
         IN  <<seq[i]>> \o SortByPos(SubSeq(seq, 1, i - 1) \o SubSeq(seq, i + 1, Len(seq)))

\* The unique list preserving first appearance order (the seen-set loop)
Dedup(keys) ==
    SelectSeqIdx(keys, LAMBDA i : \A j \in 1..(i - 1) : keys[j] # keys[i])

\* extract_citations_from_tex: <<cited_keys, unique_cited_keys>>
extract_citations_from_tex(text) ==
    LET sorted == SortByPos(CitationsWithPos(text))
        keys   == [i \in 1..Len(sorted) |-> sorted[i].key]
    IN  <<keys, Dedup(keys)>>

\* \w of re for str patterns, on the characters the model's texts use
WordChars == Range(UpperCase) \cup Range(LowerCase) \cup Range(Digits) \cup {"_"}

\* The least offset >= p whose character is not in S (len(text) if none)
RECURSIVE SkipChars(_, _, _)
SkipChars(text, p, S) ==
    IF p >= Len(text) THEN Len(text)
    ELSE IF text[p + 1] \notin S THEN p
    ELSE SkipChars(text, p + 1, S)

\* The least offset >= p whose character is in S (len(text) if none)
RECURSIVE SkipUntil(_, _, _)
SkipUntil(text, p, S) ==
    IF p >= Len(text) THEN Len(text)
    ELSE IF text[p + 1] \in S THEN p
    ELSE SkipUntil(text, p + 1, S)

\* The lookahead (?=\n\s*@|\n\s*$|\Z) of bib_entry_pattern at offset e, with
\* re.MULTILINE: a newline then blanks then "@"; or a newline then blanks up
\* to an end of line; or the end of the text
EntryLookahead(text, e) ==
    \/ e = Len(text)
    \/ /\ e < Len(text)
       /\ text[e + 1] = "\n"
       /\ LET k == SkipChars(text, e + 1, Whitespace)
          IN  \/ k < Len(text) /\ text[k + 1] = "@"
              \/ k = Len(text)
              \/ \E j \in (e + 1)..(k - 1) : text[j + 1] = "\n"

\* Where the lazy .*? of bib_entry_pattern stops: the least offset >= e at
\* which the lookahead holds
RECURSIVE EntryEnd(_, _)
EntryEnd(text, e) ==
    IF EntryLookahead(text, e) THEN e ELSE EntryEnd(text, e + 1)

\* The match of bib_entry_pattern, r'(@\w+\s*\{\s*([^,\s}]+)\s*,.*?)(?=...)'
\* with re.DOTALL, that starts at offset p, if there is one
EntryMatchAt(text, p) ==
    LET w    == SkipChars(text, p + 1, WordChars)
        b    == SkipChars(text, w, Whitespace)
        k0   == SkipChars(text, b + 1, Whitespace)
        k1   == SkipUntil(text, k0, Whitespace \cup {",", "}"})
        c    == SkipChars(text, k1, Whitespace)
        stop == EntryEnd(text, c + 1)
    IN  IF /\ w > p + 1
           /\ b < Len(text) /\ text[b + 1] = "{"
           /\ k1 > k0
           /\ c < Len(text) /\ text[c + 1] = ","
        THEN [ok |-> TRUE, full_entry |-> Slice(text, p, stop),
              key |-> Slice(text, k0, k1), stop |-> stop]
        ELSE [ok |-> FALSE, full_entry |-> <<>>, key |-> <<>>, stop |-> p + 1]

\* self.bib_entry_pattern.findall(text) from offset p on
RECURSIVE EntryFindAll(_, _)
EntryFindAll(text, p) ==
    LET q == Find(text, <<"@">>, p)
    IN  IF q = -1 THEN <<>>
        ELSE LET m == EntryMatchAt(text, q)
             IN  IF m.ok THEN <<m>> \o EntryFindAll(text, m.stop)
                 ELSE EntryFindAll(text, q + 1)

\* parse_bib_entries that keeps the first definition of a key (mutant)
parse_bib_entries_first_wins(text) ==
    LET ms   == EntryFindAll(text, 0)
        keys == {Strip(ms[i].key) : i \in 1..Len(ms)} \ {<<>>}
    IN  [k \in keys |->
            LET first == CHOOSE i \in 1..Len(ms) :
                             /\ Strip(ms[i].key) = k
                             /\ \A j \in 1..(i - 1) : Strip(ms[j].key) # k
            IN  Strip(ms[first].full_entry)]

\* parse_bib_entries: bib_entries, a dict key -> stripped entry text in which
\* a later entry of the same key overwrites the earlier one
parse_bib_entries(text) ==
    LET ms   == EntryFindAll(text, 0)
        keys == {Strip(ms[i].key) : i \in 1..Len(ms)} \ {<<>>}
    IN  [k \in keys |->
            LET last == CHOOSE i \in 1..Len(ms) :
                            /\ Strip(ms[i].key) = k
                            /\ \A j \in (i + 1)..Len(ms) : Strip(ms[j].key) # k
            IN  Strip(ms[last].full_entry)]

\* (mutant) the missing keys listed alphabetically
analyze_citations_sorted(unique, keys) ==
    <<SortedSeq(Range(unique) \ keys), SortedSeq(keys \ Range(unique))>>

\* analyze_citations: <<missing_keys, unused_keys>>
analyze_citations(unique, keys) ==
    <<SelectSeq(unique, LAMBDA k : k \notin keys),
      SortedSeq(keys \ Range(unique))>>

\* (mutant) the entries ordered by key instead of by citation
create_ordered_bib_by_key(unique, entries) ==
    LET present == SortedSeq(Range(unique) \cap DOMAIN entries)
    IN  [i \in 1..Len(present) |-> [key |-> present[i], entry |-> entries[present[i]]]]

\* (mutant) the entries never cited kept after the cited ones
create_ordered_bib_with_unused(unique, entries) ==
    LET present == SelectSeq(unique, LAMBDA k : k \in DOMAIN entries)
                        \o SortedSeq(DOMAIN entries \ Range(unique))
    IN  [i \in 1..Len(present) |-> [key |-> present[i], entry |-> entries[present[i]]]]

\* create_ordered_bib: the OrderedDict as its (key, entry) items in order
create_ordered_bib(unique, entries) ==
    LET present == SelectSeq(unique, LAMBDA k : k \in DOMAIN entries)
    IN  [i \in 1..Len(present) |-> [key |-> present[i], entry |-> entries[present[i]]]]

\* the names the processor was constructed with
TexFileName == <<"p", ".", "t", "e", "x">>

BibFileName == <<"r", ".", "b", "i", "b">>

\* the four header lines save_ordered_bib writes
BibHeader(n) ==
    <<"%", " ", "O", "r", "d", "e", "r", "e", "d", " ", "B", "i", "b", "l", "i", "o", "g", "r", "a", "p", "h", "y", " ", "F", "i", "l", "e", "\n">> \o
    <<"%", " ", "G", "e", "n", "e", "r", "a", "t", "e", "d", " ", "f", "r", "o", "m", ":", " ">> \o TexFileName \o <<" ", "a", "n", "d", " ">> \o BibFileName \o <<"\n">> \o
    <<"%", " ", "T", "o", "t", "a", "l", " ", "e", "n", "t", "r", "i", "e", "s", ":", " ">> \o IntToStr(n) \o <<"\n">> \o
    <<"%", " ", "O", "r", "d", "e", "r", "e", "d", " ", "b", "y", " ", "c", "i", "t", "a", "t", "i", "o", "n", " ", "a", "p", "p", "e", "a", "r", "a", "n", "c", "e", " ", "i", "n", " ", "L", "a", "T", "e", "X", " ", "d", "o", "c", "u", "m", "e", "n", "t", "\n", "\n">>

\* save_ordered_bib that writes the entries one after another (mutant)
save_ordered_bib_unseparated(ordered) ==
    BibHeader(Len(ordered)) \o Flatten([i \in 1..Len(ordered) |-> ordered[i].entry])

\* the text save_ordered_bib writes for a non-empty self.ordered_entries
save_ordered_bib(ordered) ==
    LET Item(i, entry) ==
            (IF i > 1 THEN <<"\n">> ELSE <<>>) \o entry \o
            (IF EndsWith(entry, <<"\n">>) THEN <<>> ELSE <<"\n">>)
    IN  BibHeader(Len(ordered)) \o
        Flatten([i \in 1..Len(ordered) |-> Item(i, ordered[i].entry)])

\* save_ordered_bib that writes the header when there is no entry (mutant)
save_ordered_bib_result_header_only(ordered, write_fails) ==
    IF write_fails
    THEN [returned |-> "False", written |-> FALSE, text |-> <<>>]
    ELSE [returned |-> "True", written |-> TRUE, text |-> save_ordered_bib(ordered)]

\* save_ordered_bib: the value returned, whether the file was written, its text
save_ordered_bib_result(ordered, write_fails) ==
    IF ordered = <<>> \/ write_fails
    THEN [returned |-> "False", written |-> FALSE, text |-> <<>>]
    ELSE [returned |-> "True", written |-> TRUE, text |-> save_ordered_bib(ordered)]

\* ------------------------------------------------------------------------
\* reset_figure_names.py
\* ------------------------------------------------------------------------

IMAGE_EXTENSIONS == {<<".", "p", "d", "f">>, <<".", "p", "n", "g">>, <<".", "j", "p", "g">>, <<".", "j", "p", "e", "g">>, <<".", "e", "p", "s">>, <<".", "s", "v", "g">>}

FIGURE_KEYWORDS == {<<"f", "i", "g", "u", "r", "e">>, <<"f", "i", "g">>, <<"i", "m", "a", "g", "e">>}

\* is_image_file: a known extension or a keyword, without regard to case (the
\* third test of the code implies the second)
is_image_file(path) ==
    LET path_lower == Lower(path)
    IN  \/ \E ext \in IMAGE_EXTENSIONS : EndsWith(path_lower, ext)
        \/ \E keyword \in FIGURE_KEYWORDS : Contains(path_lower, keyword)

BeginFigure == <<"\\", "b", "e", "g", "i", "n", "{", "f", "i", "g", "u", "r", "e">>

EndFigure == <<"\\", "e", "n", "d", "{", "f", "i", "g", "u", "r", "e">>

\* Where the text `tag`, an optional "*" and "}" end when they start at offset
\* p of text; -1 when they do not start there
TagEnd(text, p, tag) ==
    LET q == p + Len(tag)
    IN  IF ~(q <= Len(text) /\ SubSeq(text, p + 1, q) = tag) THEN -1
        ELSE IF q < Len(text) /\ text[q + 1] = "}" THEN q + 1
        ELSE IF q + 1 < Len(text) /\ text[q + 1] = "*" /\ text[q + 2] = "}" THEN q + 2
        ELSE -1

\* The least offset >= from at which the tag stands, else -1
FirstTag(text, tag, from) ==
    MinOrNone({p \in from..(Len(text) - 1) :
                    text[p + 1] = "\\" /\ TagEnd(text, p, tag) # -1})

\* figure_pattern.finditer(text) from offset `from` on: \begin{figure*?},
\* then as little as possible (re.DOTALL) up to the next \end{figure*?}
RECURSIVE FigureFindIter(_, _)
FigureFindIter(text, from) ==
    LET Closed(b, e) ==
            IF e = -1 THEN <<>>
            ELSE <<[start |-> b, stop |-> TagEnd(text, e, EndFigure)]>>
                    \o FigureFindIter(text, TagEnd(text, e, EndFigure))
        Opened(b) ==
            IF b = -1 THEN <<>>
            ELSE Closed(b, FirstTag(text, EndFigure, TagEnd(text, b, BeginFigure)))
    IN  Opened(FirstTag(text, BeginFigure, from))

IncludeGraphics == <<"\\", "i", "n", "c", "l", "u", "d", "e", "g", "r", "a", "p", "h", "i", "c", "s">>

\* (?:\s*\[[^\]]*\])* of img_pattern from offset q on: the offset after the
\* last bracketed option
RECURSIVE OptionsEnd(_, _)
OptionsEnd(text, q) ==
    LET Bracket(c) == IF c = -1 THEN q ELSE OptionsEnd(text, c + 1)
        Option(w) ==
            IF w < Len(text) /\ text[w + 1] = "["
            THEN Bracket(Find(text, <<"]">>, w + 1))
            ELSE q
    IN  Option(SkipChars(text, q, Whitespace))

\* The match of img_pattern that starts at offset p, if there is one: groups
\* 1 to 3 are prefix, path and suffix
ImgMatchAt(text, p) ==
    LET Braces(w, close) ==
            IF /\ StartsWith(Slice(text, p, Len(text)), IncludeGraphics)
               /\ w < Len(text) /\ text[w + 1] = "{"
               /\ close > w + 1
            THEN [ok |-> TRUE, prefix |-> Slice(text, p, w + 1),
                  path |-> Slice(text, w + 1, close), suffix |-> <<"}">>, stop |-> close + 1]
            ELSE [ok |-> FALSE, prefix |-> <<>>, path |-> <<>>, suffix |-> <<>>, stop |-> p + 1]
        Options(w) == Braces(w, Find(text, <<"}">>, w + 1))
    IN  Options(SkipChars(text, OptionsEnd(text, p + Len(IncludeGraphics)), Whitespace))

\* img_pattern.findall(text) from offset `from` on
RECURSIVE ImgFindAll(_, _)
ImgFindAll(text, from) ==
    LET Tried(q, m) ==
            IF m.ok THEN <<m>> \o ImgFindAll(text, m.stop)
            ELSE ImgFindAll(text, q + 1)
        Command(q) == IF q = -1 THEN <<>> ELSE Tried(q, ImgMatchAt(text, q))
    IN  Command(Find(text, IncludeGraphics, from))

\* list.sort(key=...): the indices in `rest` by ascending key, equal keys in
\* their original order
RECURSIVE StableOrder(_, _)
StableOrder(keys, rest) ==
    IF rest = {} THEN <<>>
    ELSE LET i == CHOOSE i \in rest : \A j \in rest :
                        keys[i] < keys[j] \/ (keys[i] = keys[j] /\ i <= j)
         IN  <<i>> \o StableOrder(keys, rest \ {i})

\* sorted(..., reverse=True): by descending key, equal keys in their
\* original order
RECURSIVE StableOrderDesc(_, _)
StableOrderDesc(keys, rest) ==
    IF rest = {} THEN <<>>
    ELSE LET i == CHOOSE i \in rest : \A j \in rest :
                        keys[i] > keys[j] \/ (keys[i] = keys[j] /\ i <= j)
         IN  <<i>> \o StableOrderDesc(keys, rest \ {i})

\* images_in_figure.sort(key=lambda x: x.position_in_doc)
SortImages(images) ==
    LET order == StableOrder([i \in 1..Len(images) |-> images[i].position_in_doc],
                             1..Len(images))
    IN  [i \in 1..Len(images) |-> images[order[i]]]

\* The ImageInfo list of one figure environment (inner loop of
\* extract_figure_environments)
ImagesInFigure(tex, figure_start, figure_content) ==
    LET Info(m, full_command) ==
            [full_command    |-> full_command,
             path            |-> Strip(m.path),
             prefix          |-> m.prefix,
             suffix          |-> m.suffix,
             position_in_doc |-> Find(tex, full_command, figure_start)]
        Infos(img_matches) ==
            [i \in 1..Len(img_matches) |->
                Info(img_matches[i],
                     img_matches[i].prefix \o img_matches[i].path \o img_matches[i].suffix)]
    IN  SortImages(SelectSeq(Infos(ImgFindAll(figure_content, 0)),
            LAMBDA x : is_image_file(x.path) /\ x.position_in_doc # -1))

\* self.figure_environments.sort(key=lambda x: x.position)
SortEnvironments(envs) ==
    LET order == StableOrder([i \in 1..Len(envs) |-> envs[i].position], 1..Len(envs))
    IN  [i \in 1..Len(envs) |-> envs[order[i]]]

\* extract_figure_environments: the new value of self.figure_environments.
\* The environments found are appended to the list as it is, then the list
\* is sorted.
extract_figure_environments(tex, envs) ==
    LET Env(m, figure_content) ==
            [position |-> m.start,
             content  |-> figure_content,
             images   |-> ImagesInFigure(tex, m.start, figure_content)]
        Found(figure_matches) ==
            [i \in 1..Len(figure_matches) |->
                Env(figure_matches[i],
                    Slice(tex, figure_matches[i].start, figure_matches[i].stop))]
    IN  SortEnvironments(envs \o SelectSeq(Found(FigureFindIter(tex, 0)),
                                           LAMBDA f : f.images # <<>>))

AppendixCommand == <<"\\", "a", "p", "p", "e", "n", "d", "i", "x">>

\* find_appendix_position: the first \appendix followed by a word boundary,
\* else len(tex_content)
find_appendix_position(tex) ==
    LET n == Len(AppendixCommand)
        hits == {p \in 0..(Len(tex) - n) :
                    /\ tex[p + 1] = "\\"
                    /\ SubSeq(tex, p + 1, p + n) = AppendixCommand
                    /\ (p + n = Len(tex) \/ tex[p + n + 1] \notin WordChars)}
    IN  IF hits = {} THEN Len(tex) ELSE MinOf(hits)

\* (mutant) a figure at the marker or before it counted as main text, the
\* others as appendix, the two lists swapped
categorize_figures_swapped(envs, tex) ==
    LET Parts(appendix_pos) ==
            <<SelectSeq(envs, LAMBDA f : f.position >= appendix_pos),
              SelectSeq(envs, LAMBDA f : f.position < appendix_pos)>>
    IN  Parts(find_appendix_position(tex))

\* categorize_figures_by_position: <<main_figures, appendix_figures>>
categorize_figures_by_position(envs, tex) ==
    LET Parts(appendix_pos) ==
            <<SelectSeq(envs, LAMBDA f : f.position < appendix_pos),
              SelectSeq(envs, LAMBDA f : f.position >= appendix_pos)>>
    IN  Parts(find_appendix_position(tex))

\* extract_directory_and_filename: <<directory, filename>>
extract_directory_and_filename(path) ==
    IF Contains(path, <<"/">>)
    THEN <<Slice(path, 0, RFind(path, "/") + 1), Slice(path, RFind(path, "/") + 1, Len(path))>>
    ELSE <<<<>>, path>>

FigUnderscore == <<"f", "i", "g", "_">>

\* prefix_pattern.match(filename), r'^fig_s?(\d+)_(.+)$': whether it matches
\* and group 2
PrefixMatch(filename) ==
    LET Groups(s, d, base) ==
            IF /\ StartsWith(filename, FigUnderscore)
               /\ d > s
               /\ d < Len(filename) /\ filename[d + 1] = "_"
               /\ base # <<>>
               /\ "\n" \notin Range(base)
            THEN [ok |-> TRUE, base_name |-> base]
            ELSE [ok |-> FALSE, base_name |-> <<>>]
        Line(rest) ==
            IF rest # <<>> /\ rest[Len(rest)] = "\n"
            THEN Slice(rest, 0, Len(rest) - 1) ELSE rest
        Number(s, d) == Groups(s, d, Line(Slice(filename, d + 1, Len(filename))))
        Letter(s) == Number(s, SkipChars(filename, s, Range(Digits)))
    IN  Letter(IF Len(filename) >= 5 /\ filename[5] = "s" THEN 5 ELSE 4)

generate_new_filename(filename, expected_prefix) ==
    LET Named(existing_match) ==
            IF existing_match.ok THEN expected_prefix \o existing_match.base_name
            ELSE expected_prefix \o filename
    IN  Named(PrefixMatch(filename))

\* self.modifications[old] = new on the dict as its items in insertion order
DictSet(items, old, new) ==
    IF \E i \in 1..Len(items) : items[i].old = old
    THEN [i \in 1..Len(items) |->
            IF items[i].old = old THEN [old |-> old, new |-> new] ELSE items[i]]
    ELSE Append(items, [old |-> old, new |-> new])

\* process_single_image on st = [results, modifications]
process_single_image(st, img_info, prefix, fig_label) ==
    LET Planned(orig_path, new_path, needs_rename) ==
            [results |->
                Append(st.results,
                       [figure_label  |-> fig_label,
                        original_path |-> orig_path,
                        new_path      |-> new_path,
                        needs_rename  |-> needs_rename]),
             modifications |->
                IF needs_rename
                THEN DictSet(st.modifications, img_info.full_command,
                             img_info.prefix \o new_path \o img_info.suffix)
                ELSE st.modifications]
        Renamed(orig_path, new_path) == Planned(orig_path, new_path, orig_path # new_path)
        Parted(orig_path, df) ==
            Renamed(orig_path, df[1] \o generate_new_filename(df[2], prefix))
    IN  Parted(img_info.path, extract_directory_and_filename(img_info.path))

\* f"Fig {fig_idx}" and f"Fig S{fig_idx}"
FigureLabel(appendix, fig_idx) ==
    (IF appendix THEN <<"F", "i", "g", " ", "S">> ELSE <<"F", "i", "g", " ">>) \o IntToStr(fig_idx)

\* f"fig_{fig_idx}_" and f"fig_s{fig_idx}_"
FigurePrefix(appendix, fig_idx) ==
    (IF appendix THEN <<"f", "i", "g", "_", "s">> ELSE <<"f", "i", "g", "_">>) \o IntToStr(fig_idx) \o <<"_">>

\* The calls of process_single_image one of the two loops of
\* analyze_all_figures makes, in order
ImageJobs(figures, appendix) ==
    Flatten([fig_idx \in 1..Len(figures) |->
        [k \in 1..Len(figures[fig_idx].images) |->
            [img_info  |-> figures[fig_idx].images[k],
             prefix    |-> FigurePrefix(appendix, fig_idx),
             fig_label |-> FigureLabel(appendix, fig_idx)]]])

\* analyze_all_figures on the loaded text and the fields of the processor
analyze_all_figures(tex, envs, res, mods) ==
    LET Processed(jobs) ==
            LET F[i \in 0..Len(jobs)] ==
                    IF i = 0 THEN [results |-> res, modifications |-> mods]
                    ELSE process_single_image(F[i - 1], jobs[i].img_info, jobs[i].prefix,
                                              jobs[i].fig_label)
            IN  F[Len(jobs)]
        Analyzed(all_envs, parts, st) ==
            [figure_environments |-> all_envs,
             main_figures        |-> parts[1],
             appendix_figures    |-> parts[2],
             results             |-> st.results,
             modifications       |-> st.modifications]
        Categorized(all_envs, parts) ==
            Analyzed(all_envs, parts,
                     Processed(ImageJobs(parts[1], FALSE) \o ImageJobs(parts[2], TRUE)))
        Extracted(all_envs) ==
            Categorized(all_envs, categorize_figures_by_position(all_envs, tex))
    IN  Extracted(extract_figure_environments(tex, envs))

\* str.replace(old, new, 1)
Replace1(s, old, new) ==
    LET Found(i) ==
            IF i = -1 THEN s
            ELSE Slice(s, 0, i) \o new \o Slice(s, i + Len(old), Len(s))
    IN  Found(Find(s, old, 0))

\* (mutant) the modifications by ascending offset
SortModifications_ascending(mods, tex) ==
    LET order == StableOrder([i \in 1..Len(mods) |->
                                Find(tex, mods[i].old, 0)],
                             1..Len(mods))
    IN  [i \in 1..Len(mods) |-> mods[order[i]]]

\* sorted(self.modifications.items(), key=lambda x: self.tex_content.find(x[0]),
\* reverse=True)
SortModifications(mods, tex) ==
    LET order == StableOrderDesc([i \in 1..Len(mods) |->
                                    Find(tex, mods[i].old, 0)],
                                 1..Len(mods))
    IN  [i \in 1..Len(mods) |-> mods[order[i]]]

\* save_modified_tex that writes the text when there is nothing to replace (mutant)
save_modified_tex_always(tex, mods) ==
    [saved |-> TRUE, text |-> tex, warnings |-> <<>>]

\* save_modified_tex: the value returned and the text written
save_modified_tex(tex, mods) ==
    LET ReplaceOrWarn(st, old, new) ==
            IF Contains(st.text, old)
            THEN [st EXCEPT !.text = Replace1(st.text, old, new)]
            ELSE [st EXCEPT !.warnings = Append(st.warnings, old)]
        Replaced(sorted_modifications) ==
            LET F[i \in 0..Len(sorted_modifications)] ==
                    IF i = 0 THEN [saved |-> TRUE, text |-> tex, warnings |-> <<>>]
                    ELSE ReplaceOrWarn(F[i - 1], sorted_modifications[i].old,
                                       sorted_modifications[i].new)
            IN  F[Len(sorted_modifications)]
    IN  IF mods = <<>> THEN [saved |-> FALSE, text |-> <<>>, warnings |-> <<>>]
        ELSE Replaced(SortModifications(mods, tex))

\* The name of target_file in the output directory
TargetName(result) ==
    extract_directory_and_filename(
        IF result.needs_rename THEN result.new_path ELSE result.original_path)[2]

NoStats == [copied |-> 0, skipped |-> 0, failed |-> 0]

\* One iteration of the loop of copy_and_rename_figures. st: the statistics,
\* the lines logged and the output directory; src_paths: the source files
\* that exist; failing: the source files shutil.copy2 raises on.
CopyFigureStep(st, result, src_paths, failing) ==
    LET Step(target) ==
            IF result.original_path \notin src_paths
            THEN [st EXCEPT !.stats.failed = @ + 1,
                            !.log = Append(@, [target |-> target, line |-> "source not found"])]
            ELSE IF target \in DOMAIN st.dst
            THEN [st EXCEPT !.stats.skipped = @ + 1,
                            !.log = Append(@, [target |-> target, line |-> "skipped"])]
            ELSE IF result.original_path \in failing
            THEN [st EXCEPT !.stats.failed = @ + 1,
                            !.log = Append(@, [target |-> target, line |-> "failed"])]
            ELSE [st EXCEPT !.stats.copied = @ + 1,
                            !.dst = [n \in DOMAIN st.dst \cup {target} |->
                                        IF n = target THEN SrcContent(result.original_path)
                                        ELSE st.dst[n]],
                            !.log = Append(@, [target |-> target, line |-> "copied"])]
    IN  Step(TargetName(result))

\* copy_and_rename_figures: the loop over self.results
copy_and_rename_figures(res, src_paths, dst0, failing) ==
    LET F[i \in 0..Len(res)] ==
            IF i = 0 THEN [stats |-> NoStats, log |-> <<>>, dst |-> dst0]
            ELSE CopyFigureStep(F[i - 1], res[i], src_paths, failing)
    IN  F[Len(res)]

\* ------------------------------------------------------------------------
\* Initial states, actions and specifications
\* ------------------------------------------------------------------------

InitImgOff ==
    /\ img_pc = "off"
    /\ image_extensions = <<>>
    /\ old_tex = <<>>
    /\ new_tex = <<>>
    /\ comparison = NoComparison
    /\ copy_result = NoCopyResult
    /\ copy_log = <<>>
    /\ img_src = {}
    /\ img_copy_fails = {}
    /\ img_dst_before = EmptyDir
    /\ img_dst = EmptyDir
    /\ img_old_exists = TRUE
    /\ img_new_exists = TRUE
    /\ img_src_dir_exists = TRUE
    /\ img_dst_dir_made = FALSE
    /\ img_raised = "none"

InitImg ==
    /\ img_pc = "ready"
    /\ image_extensions \in {InitExtensions(cfg) : cfg \in ExtConfigs}
    /\ old_tex \in ImgDocs
    /\ new_tex \in ImgDocs
    /\ comparison = NoComparison
    /\ copy_result = NoCopyResult
    /\ copy_log = <<>>
    /\ img_src = {}
    /\ img_copy_fails = {}
    /\ img_dst_before = EmptyDir
    /\ img_dst = EmptyDir
    /\ img_old_exists = TRUE
    /\ img_new_exists = TRUE
    /\ img_src_dir_exists = TRUE
    /\ img_dst_dir_made = FALSE
    /\ img_raised = "none"

\* LaTeXImageManager.extract_and_copy_new_images, step 1
CompareTexFiles ==
    /\ img_pc = "ready"
    /\ img_old_exists /\ img_new_exists
    /\ comparison' = compare_tex_files(old_tex, new_tex, image_extensions)
    /\ img_pc' = "compared"
    /\ UNCHANGED <<image_extensions, old_tex, new_tex, copy_result, copy_log,
                   img_src, img_copy_fails, img_dst_before, img_dst, img_dst_dir_made, imgRunVars>>
    /\ UNCHANGED <<bibVars, figVars>>

\* LaTeXImageManager.extract_and_copy_new_images, step 2 with images to copy:
\* copy_images on comparison.added_images. The two directories and the
\* failures of copy2 are the environment's: every image has its source file
\* and no destination file, but for at most one image `odd`, whose source may
\* be absent, whose destination may exist and whose copy may fail (a copy is
\* only tried when the source is there and the destination is not).
CopyImages ==
    /\ img_pc = "compared"
    /\ comparison.added_images # {}
    /\ img_src_dir_exists
    /\ \E order \in IterationOrders(comparison.added_images),
          odd \in AtMostOne(comparison.added_images),
          src_there, dst_there, fails \in BOOLEAN :
        /\ fails => (src_there /\ ~dst_there)
        /\ \E dst0 \in {[n \in (IF dst_there THEN odd ELSE {}) |-> OldContent(n)]} :
          \E src \in {IF src_there THEN Range(order) ELSE Range(order) \ odd} :
          \E r \in {copy_images(order, src, dst0, IF fails THEN odd ELSE {})} :
            /\ img_src' = src
            /\ img_copy_fails' = (IF fails THEN odd ELSE {})
            /\ img_dst_before' = dst0
            /\ img_dst' = r.dst
            /\ copy_log' = r.log
            /\ copy_result' = [copied |-> r.copied, missing |-> r.missing,
                               failed |-> r.failed,
                               total_attempted |-> Cardinality(comparison.added_images)]
    /\ img_dst_dir_made' = TRUE
    /\ img_pc' = "copied"
    /\ UNCHANGED <<image_extensions, old_tex, new_tex, comparison, imgRunVars>>
    /\ UNCHANGED <<bibVars, figVars>>

\* LaTeXImageManager.extract_and_copy_new_images, step 2 with nothing to copy
NoImagesToCopy ==
    /\ img_pc = "compared"
    /\ comparison.added_images = {}
    /\ copy_result' = NoCopyResult
    /\ img_pc' = "copied"
    /\ UNCHANGED <<image_extensions, old_tex, new_tex, comparison, copy_log,
                   img_src, img_copy_fails, img_dst_before, img_dst, img_dst_dir_made, imgRunVars>>
    /\ UNCHANGED <<bibVars, figVars>>

\* extract_and_copy_new_images, step 1: extract_images_from_tex raises
\* FileNotFoundError for the old file, or else for the new one
CompareTexFilesNotFound ==
    /\ img_pc = "ready"
    /\ ~(img_old_exists /\ img_new_exists)
    /\ img_raised' = IF img_old_exists THEN "new_tex" ELSE "old_tex"
    /\ img_pc' = "raised"
    /\ UNCHANGED <<image_extensions, old_tex, new_tex, comparison, copy_result,
                   copy_log, img_src, img_copy_fails, img_dst_before, img_dst, img_old_exists,
                   img_new_exists, img_src_dir_exists, img_dst_dir_made>>
    /\ UNCHANGED <<bibVars, figVars>>

\* extract_and_copy_new_images, step 2 with images to copy: copy_images
\* raises FileNotFoundError for the source directory
CopyImagesNoSourceDir ==
    /\ img_pc = "compared"
    /\ comparison.added_images # {}
    /\ ~img_src_dir_exists
    /\ img_raised' = "source_dir"
    /\ img_pc' = "raised"
    /\ UNCHANGED <<image_extensions, old_tex, new_tex, comparison, copy_result,
                   copy_log, img_src, img_copy_fails, img_dst_before, img_dst, img_old_exists,
                   img_new_exists, img_src_dir_exists, img_dst_dir_made>>
    /\ UNCHANGED <<bibVars, figVars>>

\* extract_and_copy_new_images with the input files and the source directory
\* there or not
NextImgRun ==
    \/ CompareTexFiles
    \/ CompareTexFilesNotFound
    \/ CopyImages
    \/ CopyImagesNoSourceDir
    \/ NoImagesToCopy

NextImg == CompareTexFiles \/ CopyImages \/ NoImagesToCopy

\* LaTeXBibProcessor.__init__
BibFresh ==
    /\ bib_tex_content = <<>>
    /\ bib_content = <<>>
    /\ cited_keys = <<>>
    /\ unique_cited_keys = <<>>
    /\ bib_entries = EmptyDir
    /\ bib_keys = {}
    /\ missing_keys = <<>>
    /\ unused_keys = <<>>
    /\ ordered_entries = <<>>
    /\ bib_out_written = FALSE
    /\ bib_out_text = <<>>
    /\ bib_saved = "none"
    /\ bib_returned = "none"
    /\ bib_error = "none"

InitBibOff ==
    /\ bib_last = "off"
    /\ bib_tex_file = <<>>
    /\ bib_bib_file = <<>>
    /\ bib_tex_exists = TRUE
    /\ bib_bib_exists = TRUE
    /\ BibFresh

InitBib ==
    /\ bib_last = "__init__"
    /\ bib_tex_file \in TexDocs
    /\ bib_bib_file \in BibFiles
    /\ bib_tex_exists = TRUE
    /\ bib_bib_exists = TRUE
    /\ BibFresh

\* load_files (both files exist and decode)
LoadFiles ==
    /\ bib_last # "off"
    /\ bib_tex_exists /\ bib_bib_exists
    /\ bib_tex_content' = bib_tex_file
    /\ bib_content' = bib_bib_file
    /\ bib_last' = "load_files"
    /\ UNCHANGED <<bib_tex_file, bib_bib_file, cited_keys, unique_cited_keys,
                   bib_entries, bib_keys, missing_keys, unused_keys, ordered_entries>>
    /\ UNCHANGED <<bibRunVars, imgVars, figVars>>

ExtractCitations ==
    /\ bib_last # "off"
    /\ \E r \in {extract_citations_from_tex(bib_tex_content)} :
        /\ cited_keys' = r[1]
        /\ unique_cited_keys' = r[2]
    /\ bib_last' = "extract_citations_from_tex"
    /\ UNCHANGED <<bib_tex_file, bib_bib_file, bib_tex_content, bib_content,
                   bib_entries, bib_keys, missing_keys, unused_keys, ordered_entries>>
    /\ UNCHANGED <<bibRunVars, imgVars, figVars>>

ParseBibEntries ==
    /\ bib_last # "off"
    /\ \E r \in {parse_bib_entries(bib_content)} :
        /\ bib_entries' = r
        /\ bib_keys' = DOMAIN r
    /\ bib_last' = "parse_bib_entries"
    /\ UNCHANGED <<bib_tex_file, bib_bib_file, bib_tex_content, bib_content,
                   cited_keys, unique_cited_keys, missing_keys, unused_keys,
                   ordered_entries>>
    /\ UNCHANGED <<bibRunVars, imgVars, figVars>>

AnalyzeCitations ==
    /\ bib_last # "off"
    /\ \E r \in {analyze_citations(unique_cited_keys, bib_keys)} :
        /\ missing_keys' = r[1]
        /\ unused_keys' = r[2]
    /\ bib_last' = "analyze_citations"
    /\ UNCHANGED <<bib_tex_file, bib_bib_file, bib_tex_content, bib_content,
                   cited_keys, unique_cited_keys, bib_entries, bib_keys,
                   ordered_entries>>
    /\ UNCHANGED <<bibRunVars, imgVars, figVars>>

CreateOrderedBib ==
    /\ bib_last # "off"
    /\ ordered_entries' = create_ordered_bib(unique_cited_keys, bib_entries)
    /\ bib_last' = "create_ordered_bib"
    /\ UNCHANGED <<bib_tex_file, bib_bib_file, bib_tex_content, bib_content,
                   cited_keys, unique_cited_keys, bib_entries, bib_keys,
                   missing_keys, unused_keys>>
    /\ UNCHANGED <<bibRunVars, imgVars, figVars>>

\* save_ordered_bib: nothing to save, the file written, or the write refused
SaveOrderedBib ==
    /\ bib_last \in {"__init__", "execute_full_process", "save_ordered_bib"}
    /\ \E write_fails \in BOOLEAN :
        /\ (ordered_entries = <<>>) => ~write_fails
        /\ \E saved \in {save_ordered_bib_result(ordered_entries, write_fails)} :
            /\ bib_saved' = saved.returned
            /\ bib_out_written' = (bib_out_written \/ saved.written)
            /\ bib_out_text' = IF saved.written THEN saved.text ELSE bib_out_text
    /\ bib_last' = "save_ordered_bib"
    /\ UNCHANGED <<bib_tex_file, bib_bib_file, bib_tex_content, bib_content,
                   cited_keys, unique_cited_keys, bib_entries, bib_keys,
                   missing_keys, unused_keys, ordered_entries,
                   bib_tex_exists, bib_bib_exists, bib_returned, bib_error>>
    /\ UNCHANGED <<imgVars, figVars>>

\* execute_full_process: load_files raised FileNotFoundError
ExecuteFullProcessNotFound ==
    /\ bib_last = "__init__"
    /\ ~(bib_tex_exists /\ bib_bib_exists)
    /\ bib_tex_content' = IF bib_tex_exists THEN bib_tex_file ELSE bib_tex_content
    /\ bib_error' = IF bib_tex_exists THEN "bib_file" ELSE "tex_file"
    /\ bib_returned' = "False"
    /\ bib_last' = "execute_full_process"
    /\ UNCHANGED <<bib_tex_file, bib_bib_file, bib_content,
                   cited_keys, unique_cited_keys, bib_entries, bib_keys,
                   missing_keys, unused_keys, ordered_entries,
                   bib_tex_exists, bib_bib_exists, bib_out_written, bib_out_text,
                   bib_saved>>
    /\ UNCHANGED <<imgVars, figVars>>

\* execute_full_process: steps 1 to 9 with both files there
ExecuteFullProcess ==
    /\ bib_last = "__init__"
    /\ bib_tex_exists /\ bib_bib_exists
    /\ bib_tex_content' = bib_tex_file
    /\ bib_content' = bib_bib_file
    /\ \E cited \in {extract_citations_from_tex(bib_tex_file)} :
       \E parsed \in {parse_bib_entries(bib_bib_file)} :
       \E analysis \in {analyze_citations(cited[2], DOMAIN parsed)} :
       \E ordered \in {create_ordered_bib(cited[2], parsed)} :
       \E write_fails \in BOOLEAN :
        /\ (ordered = <<>>) => ~write_fails
        /\ cited_keys' = cited[1]
        /\ unique_cited_keys' = cited[2]
        /\ bib_entries' = parsed
        /\ bib_keys' = DOMAIN parsed
        /\ missing_keys' = analysis[1]
        /\ unused_keys' = analysis[2]
        /\ ordered_entries' = ordered
        /\ \E saved \in {save_ordered_bib_result(ordered, write_fails)} :
            /\ bib_saved' = saved.returned
            /\ bib_out_written' = (bib_out_written \/ saved.written)
            /\ bib_out_text' = IF saved.written THEN saved.text ELSE bib_out_text
            /\ bib_returned' = saved.returned
    /\ bib_error' = "none"
    /\ bib_last' = "execute_full_process"
    /\ UNCHANGED <<bib_tex_file, bib_bib_file, bib_tex_exists, bib_bib_exists>>
    /\ UNCHANGED <<imgVars, figVars>>

\* the processor run as a whole, and save_ordered_bib called on its own
NextBibRun ==
    \/ ExecuteFullProcess
    \/ ExecuteFullProcessNotFound
    \/ SaveOrderedBib

NextBib ==
    \/ LoadFiles
    \/ ExtractCitations
    \/ ParseBibEntries
    \/ AnalyzeCitations
    \/ CreateOrderedBib

\* TeXFigureProcessor.__init__
FigFresh ==
    /\ fig_tex_content = <<>>
    /\ modifications = <<>>
    /\ results = <<>>
    /\ figure_environments = <<>>
    /\ main_figures = <<>>
    /\ appendix_figures = <<>>
    /\ fig_analyses = 0
    /\ tex_saved = FALSE
    /\ fig_out_written = FALSE
    /\ fig_out_text = <<>>
    /\ fig_save_log = <<>>
    /\ fig_src = {}
    /\ fig_copy_fails = {}
    /\ copy_stats = NoStats
    /\ fig_copy_log = <<>>
    /\ fig_dst_before = EmptyDir
    /\ fig_dst = EmptyDir
    /\ fig_raised = "none"
    /\ fig_returned = <<>>

\* generate_new_filename not called on its own
GenOff ==
    /\ gen_path = <<>>
    /\ gen_filename = <<>>
    /\ gen_prefixes = <<>>
    /\ gen_new_filenames = <<>>

InitFigOff ==
    /\ fig_last = "off"
    /\ fig_rerun = FALSE
    /\ fig_tex_file = <<>>
    /\ fig_tex_exists = TRUE
    /\ FigFresh
    /\ GenOff

InitFig ==
    /\ fig_last = "__init__"
    /\ fig_rerun = FALSE
    /\ fig_tex_file \in FigDocs
    /\ fig_tex_exists = TRUE
    /\ FigFresh
    /\ GenOff

InitFigNested ==
    /\ fig_last = "__init__"
    /\ fig_rerun = FALSE
    /\ fig_tex_file \in NestedFigDocs
    /\ fig_tex_exists = TRUE
    /\ FigFresh
    /\ GenOff

InitFigSameTarget ==
    /\ fig_last = "__init__"
    /\ fig_rerun = FALSE
    /\ fig_tex_file \in SameTargetFigDocs
    /\ fig_tex_exists = TRUE
    /\ FigFresh
    /\ GenOff

\* analyze_all_figures, with the load_tex_file of extract_figure_environments
\* when self.tex_content is empty
AnalyzeAllFigures ==
    /\ fig_last \notin {"off", "new", "raised", "copy_and_rename_figures"}
    /\ fig_analyses < MaxAnalyses
    /\ \E tex \in {IF fig_tex_content = <<>> THEN fig_tex_file ELSE fig_tex_content} :
       \E r \in {analyze_all_figures(tex, figure_environments, results, modifications)} :
            /\ fig_tex_content' = tex
            /\ figure_environments' = r.figure_environments
            /\ main_figures' = r.main_figures
            /\ appendix_figures' = r.appendix_figures
            /\ results' = r.results
            /\ modifications' = r.modifications
    /\ fig_analyses' = fig_analyses + 1
    /\ fig_last' = "analyze_all_figures"
    /\ UNCHANGED <<fig_rerun, fig_tex_file, tex_saved, fig_out_written, fig_out_text, fig_save_log,
                   fig_src, fig_copy_fails, copy_stats, fig_copy_log, fig_dst_before, fig_dst>>
    /\ UNCHANGED <<figRunVars, imgVars, bibVars>>

\* save_modified_tex (the write succeeds)
SaveModifiedTex ==
    /\ fig_last \notin {"off", "new", "raised", "copy_and_rename_figures"}
    /\ \E r \in {save_modified_tex(fig_tex_content, modifications)} :
        /\ tex_saved' = r.saved
        /\ fig_out_written' = (fig_out_written \/ r.saved)
        /\ fig_out_text' = IF r.saved THEN r.text ELSE fig_out_text
        /\ fig_save_log' = r.warnings
    /\ fig_last' = "save_modified_tex"
    /\ UNCHANGED <<fig_rerun, fig_tex_file, fig_tex_content, modifications, results,
                   figure_environments, main_figures, appendix_figures, fig_analyses,
                   fig_src, fig_copy_fails, copy_stats, fig_copy_log, fig_dst_before, fig_dst>>
    /\ UNCHANGED <<figRunVars, imgVars, bibVars>>

\* copy_and_rename_figures, the step that follows save_modified_tex. The
\* source files, the output directory and the failures of copy2 are the
\* environment's: every source file exists and the output directory is
\* empty, but for at most one file of the plan (`odd`, the first entry that
\* names it), whose source may be absent, whose target may exist and whose
\* copy may fail (a copy is only tried when the source is there and the
\* target is not).
CopyAndRenameFigures ==
    /\ fig_last = "save_modified_tex"
    /\ \E odd \in AtMostOne({i \in 1..Len(results) :
                        \A j \in 1..(i - 1) :
                            \/ results[j].original_path # results[i].original_path
                            \/ TargetName(results[j]) # TargetName(results[i])}),
          src_there, dst_there, fails \in BOOLEAN :
        /\ fails => (src_there /\ ~dst_there)
        /\ (odd = {}) = (src_there /\ ~dst_there /\ ~fails)
        /\ \E all_src \in {{results[i].original_path : i \in 1..Len(results)}} :
           \E src \in {IF src_there THEN all_src
                       ELSE all_src \ {results[i].original_path : i \in odd}} :
           \E dst0 \in {[n \in (IF dst_there THEN {TargetName(results[i]) : i \in odd} ELSE {})
                           |-> OldContent(n)]} :
           \E r \in {copy_and_rename_figures(results, src, dst0,
                       IF fails THEN {results[i].original_path : i \in odd} ELSE {})} :
               /\ fig_src' = src
               /\ fig_copy_fails' = (IF fails THEN {results[i].original_path : i \in odd} ELSE {})
               /\ fig_dst_before' = dst0
               /\ fig_dst' = r.dst
               /\ fig_copy_log' = r.log
               /\ copy_stats' = r.stats
    /\ fig_last' = "copy_and_rename_figures"
    /\ UNCHANGED <<fig_rerun, fig_tex_file, fig_tex_content, modifications, results,
                   figure_environments, main_figures, appendix_figures, fig_analyses,
                   tex_saved, fig_out_written, fig_out_text, fig_save_log>>
    /\ UNCHANGED <<figRunVars, imgVars, bibVars>>

\* A second run of the tool: a new TeXFigureProcessor on the text that a run
\* of one analyze_all_figures and save_modified_tex wrote
ProcessRewrittenTex ==
    /\ fig_last = "save_modified_tex"
    /\ tex_saved
    /\ fig_analyses = 1
    /\ ~fig_rerun
    /\ fig_rerun' = TRUE
    /\ fig_tex_file' = fig_out_text
    /\ fig_last' = "__init__"
    /\ fig_tex_content' = <<>>
    /\ modifications' = <<>>
    /\ results' = <<>>
    /\ figure_environments' = <<>>
    /\ main_figures' = <<>>
    /\ appendix_figures' = <<>>
    /\ fig_analyses' = 0
    /\ tex_saved' = FALSE
    /\ fig_out_written' = FALSE
    /\ fig_out_text' = <<>>
    /\ fig_save_log' = <<>>
    /\ UNCHANGED <<fig_src, fig_copy_fails, copy_stats, fig_copy_log, fig_dst_before, fig_dst>>
    /\ UNCHANGED <<figRunVars, imgVars, bibVars>>

\* TeXFigureProcessor(tex_file), the file there
NewProcessor ==
    /\ fig_last = "new"
    /\ fig_tex_exists
    /\ fig_last' = "__init__"
    /\ UNCHANGED <<fig_rerun, fig_tex_file, fig_tex_content, modifications, results,
                   figure_environments, main_figures, appendix_figures, fig_analyses,
                   tex_saved, fig_out_written, fig_out_text, fig_save_log, fig_src, fig_copy_fails, copy_stats,
                   fig_copy_log, fig_dst_before, fig_dst, figRunVars>>
    /\ UNCHANGED <<imgVars, bibVars>>

\* TeXFigureProcessor(tex_file) raises FileNotFoundError: there is no processor
NewProcessorNotFound ==
    /\ fig_last = "new"
    /\ ~fig_tex_exists
    /\ fig_last' = "raised"
    /\ fig_raised' = "FileNotFoundError"
    /\ UNCHANGED <<fig_rerun, fig_tex_file, fig_tex_content, modifications, results,
                   figure_environments, main_figures, appendix_figures, fig_analyses,
                   tex_saved, fig_out_written, fig_out_text, fig_save_log, fig_src, fig_copy_fails, copy_stats,
                   fig_copy_log, fig_dst_before, fig_dst, fig_tex_exists, fig_returned, genVars>>
    /\ UNCHANGED <<imgVars, bibVars>>

\* execute_full_processing on a new processor, steps 1 to 3 and the return;
\* the environment of step 3 as in CopyAndRenameFigures
ExecuteFullProcessing ==
    /\ fig_last = "__init__"
    /\ \E a \in {analyze_all_figures(fig_tex_file, figure_environments, results,
                                      modifications)} :
       \E s \in {save_modified_tex(fig_tex_file, a.modifications)} :
       \E odd \in AtMostOne({i \in 1..Len(a.results) :
                        \A j \in 1..(i - 1) :
                            \/ a.results[j].original_path # a.results[i].original_path
                            \/ TargetName(a.results[j]) # TargetName(a.results[i])}),
          src_there, dst_there, fails \in BOOLEAN :
        /\ fails => (src_there /\ ~dst_there)
        /\ (odd = {}) = (src_there /\ ~dst_there /\ ~fails)
        /\ \E all_src \in {{a.results[i].original_path : i \in 1..Len(a.results)}} :
           \E src \in {IF src_there THEN all_src
                       ELSE all_src \ {a.results[i].original_path : i \in odd}} :
           \E dst0 \in {[n \in (IF dst_there THEN {TargetName(a.results[i]) : i \in odd}
                                 ELSE {}) |-> OldContent(n)]} :
           \E r \in {copy_and_rename_figures(a.results, src, dst0,
                       IF fails THEN {a.results[i].original_path : i \in odd} ELSE {})} :
               /\ fig_tex_content' = fig_tex_file
               /\ figure_environments' = a.figure_environments
               /\ main_figures' = a.main_figures
               /\ appendix_figures' = a.appendix_figures
               /\ results' = a.results
               /\ modifications' = a.modifications
               /\ tex_saved' = s.saved
               /\ fig_out_written' = (fig_out_written \/ s.saved)
               /\ fig_out_text' = IF s.saved THEN s.text ELSE fig_out_text
               /\ fig_save_log' = s.warnings
               /\ fig_src' = src
               /\ fig_copy_fails' = (IF fails THEN {a.results[i].original_path : i \in odd} ELSE {})
               /\ fig_dst_before' = dst0
               /\ fig_dst' = r.dst
               /\ fig_copy_log' = r.log
               /\ copy_stats' = r.stats
               /\ fig_returned' = <<a.results>>
    /\ fig_analyses' = fig_analyses + 1
    /\ fig_last' = "execute_full_processing"
    /\ UNCHANGED <<fig_rerun, fig_tex_file, fig_tex_exists, fig_raised, genVars>>
    /\ UNCHANGED <<imgVars, bibVars>>

\* execute_full_processing on a new processor when the write of step 2
\* fails: save_modified_tex raises, execute_full_processing logs and raises
ExecuteFullProcessingWriteFails ==
    /\ fig_last = "__init__"
    /\ \E a \in {analyze_all_figures(fig_tex_file, figure_environments, results,
                                      modifications)} :
        /\ a.modifications # <<>>
        /\ fig_tex_content' = fig_tex_file
        /\ figure_environments' = a.figure_environments
        /\ main_figures' = a.main_figures
        /\ appendix_figures' = a.appendix_figures
        /\ results' = a.results
        /\ modifications' = a.modifications
        /\ fig_save_log' = save_modified_tex(fig_tex_file, a.modifications).warnings
    /\ fig_analyses' = fig_analyses + 1
    /\ fig_raised' = "write"
    /\ fig_last' = "raised"
    /\ UNCHANGED <<fig_rerun, fig_tex_file, tex_saved, fig_out_written, fig_out_text,
                   fig_src, fig_copy_fails, copy_stats, fig_copy_log, fig_dst_before, fig_dst,
                   fig_tex_exists, fig_returned, genVars>>
    /\ UNCHANGED <<imgVars, bibVars>>

\* the usage example: a processor constructed, execute_full_processing,
\* then the steps again one by one
NextFigRun ==
    \/ NewProcessor
    \/ NewProcessorNotFound
    \/ ExecuteFullProcessing
    \/ ExecuteFullProcessingWriteFails
    \/ AnalyzeAllFigures
    \/ SaveModifiedTex
    \/ CopyAndRenameFigures

NextFig ==
    \/ AnalyzeAllFigures
    \/ SaveModifiedTex
    \/ CopyAndRenameFigures
    \/ ProcessRewrittenTex

vars == <<imgVars, bibVars, figVars>>

\* The image comparison and copy of find_new_figures.py
InitSpecImg == InitImg /\ InitBibOff /\ InitFigOff

SpecImg == InitSpecImg /\ [][NextImg]_vars

InitSpecImgRun ==
    /\ img_pc = "ready"
    /\ image_extensions \in {InitExtensions(cfg) : cfg \in ExtConfigs}
    /\ old_tex \in ImgDocs
    /\ new_tex \in ImgDocs
    /\ comparison = NoComparison
    /\ copy_result = NoCopyResult
    /\ copy_log = <<>>
    /\ img_src = {}
    /\ img_copy_fails = {}
    /\ img_dst_before = EmptyDir
    /\ img_dst = EmptyDir
    /\ img_old_exists \in BOOLEAN
    /\ img_new_exists \in BOOLEAN
    /\ img_src_dir_exists \in BOOLEAN
    /\ img_dst_dir_made = FALSE
    /\ img_raised = "none"
    /\ InitBibOff
    /\ InitFigOff

SpecImgRun == InitSpecImgRun /\ [][NextImgRun]_vars

\* The bibliography processor of latex_bib_processor.py, its methods called
\* in any order
InitSpecBib == InitBib /\ InitImgOff /\ InitFigOff

SpecBib == InitSpecBib /\ [][NextBib]_vars

\* the bibliography processor run by execute_full_process, the input files there or not
InitSpecBibRun ==
    /\ bib_last = "__init__"
    /\ bib_tex_file \in TexDocs
    /\ bib_bib_file \in BibFiles
    /\ bib_tex_exists \in BOOLEAN
    /\ bib_bib_exists \in BOOLEAN
    /\ BibFresh
    /\ InitImgOff
    /\ InitFigOff

SpecBibRun == InitSpecBibRun /\ [][NextBibRun]_vars

\* The figure renamer of reset_figure_names.py, its methods called in any
\* order up to the copy, and a second run on the text the first one wrote
InitSpecFig == InitFig /\ InitImgOff /\ InitBibOff

SpecFig == InitSpecFig /\ [][NextFig]_vars

InitSpecFigRun ==
    /\ fig_last = "new"
    /\ fig_rerun = FALSE
    /\ fig_tex_file \in FigDocs
    /\ fig_tex_exists \in BOOLEAN
    /\ FigFresh
    /\ GenOff
    /\ InitImgOff
    /\ InitBibOff

SpecFigRun == InitSpecFigRun /\ [][NextFigRun]_vars

\* The two tools that copy files: the image copy of find_new_figures.py and
\* the figure renamer of reset_figure_names.py, one of them running
InitSpecCopy ==
    \/ InitImg /\ InitBibOff /\ InitFigOff
    \/ InitFig /\ InitImgOff /\ InitBibOff

NextCopy ==
    \/ CompareTexFiles
    \/ CopyImages
    \/ NoImagesToCopy
    \/ AnalyzeAllFigures
    \/ SaveModifiedTex
    \/ CopyAndRenameFigures
    \/ ProcessRewrittenTex

SpecCopy == InitSpecCopy /\ [][NextCopy]_vars

\* the operations that work item by item: copy_images, copy_and_rename_figures
\* and the replacements of save_modified_tex
InitSpecItems ==
    \/ InitImg /\ InitBibOff /\ InitFigOff
    \/ InitFigNested /\ InitImgOff /\ InitBibOff

NextItems ==
    \/ CompareTexFiles
    \/ CopyImages
    \/ NoImagesToCopy
    \/ AnalyzeAllFigures
    \/ SaveModifiedTex
    \/ CopyAndRenameFigures

SpecItems == InitSpecItems /\ [][NextItems]_vars

\* The figure renamer on documents with several images in one figure: the
\* analysis, the rewritten text and the copy into the output directory
InitSpecFigTargets == InitFigSameTarget /\ InitImgOff /\ InitBibOff

NextFigTargets ==
    \/ AnalyzeAllFigures
    \/ SaveModifiedTex
    \/ CopyAndRenameFigures

SpecFigTargets == InitSpecFigTargets /\ [][NextFigTargets]_vars

\* generate_new_filename called on a filename, then on the filename it
\* returned, with the prefixes analyze_all_figures makes
ExpectedPrefixes == {FigurePrefix(appendix, n) : appendix \in BOOLEAN, n \in 1..MaxFigNumber}

InitGen ==
    /\ gen_path \in GenPathPool
    /\ gen_filename = extract_directory_and_filename(gen_path)[2]
    /\ gen_prefixes = <<>>
    /\ gen_new_filenames = <<>>

GenerateNewFilename ==
    /\ Len(gen_prefixes) < MaxRenames
    /\ \E expected_prefix \in ExpectedPrefixes :
       \E filename \in {IF gen_new_filenames = <<>> THEN gen_filename
                        ELSE gen_new_filenames[Len(gen_new_filenames)]} :
        /\ gen_prefixes' = Append(gen_prefixes, expected_prefix)
        /\ gen_new_filenames' =
                Append(gen_new_filenames, generate_new_filename(filename, expected_prefix))
    /\ UNCHANGED <<gen_path, gen_filename>>
    /\ UNCHANGED <<fig_last, fig_rerun, fig_tex_file, fig_tex_content, modifications, results,
                   figure_environments, main_figures, appendix_figures, fig_analyses,
                   tex_saved, fig_out_written, fig_out_text, fig_save_log, fig_src,
                   fig_copy_fails, copy_stats, fig_copy_log, fig_dst_before, fig_dst,
                   fig_tex_exists, fig_raised, fig_returned>>
    /\ UNCHANGED <<imgVars, bibVars>>

InitSpecGen ==
    /\ fig_last = "off"
    /\ fig_rerun = FALSE
    /\ fig_tex_file = <<>>
    /\ fig_tex_exists = TRUE
    /\ FigFresh
    /\ InitGen
    /\ InitImgOff
    /\ InitBibOff

SpecGen == InitSpecGen /\ [][GenerateNewFilename]_vars

\* The filename extraction of find_new_figures.py on its own: compare_tex_files
\* on documents over the larger pool of raw paths
InitSpecImgNames ==
    /\ img_pc = "ready"
    /\ image_extensions \in {InitExtensions(cfg) : cfg \in ExtConfigs}
    /\ old_tex \in ImgNameDocs
    /\ new_tex \in SeqsUpTo(ImgNamePool, 1)
    /\ comparison = NoComparison
    /\ copy_result = NoCopyResult
    /\ copy_log = <<>>
    /\ img_src = {}
    /\ img_copy_fails = {}
    /\ img_dst_before = EmptyDir
    /\ img_dst = EmptyDir
    /\ img_old_exists = TRUE
    /\ img_new_exists = TRUE
    /\ img_src_dir_exists = TRUE
    /\ img_dst_dir_made = FALSE
    /\ img_raised = "none"
    /\ InitBibOff
    /\ InitFigOff

SpecImgNames == InitSpecImgNames /\ [][CompareTexFiles]_vars

\* ------------------------------------------------------------------------
\* Claims
\* ------------------------------------------------------------------------

\* C1: compare_tex_files returns added = new - old, removed = old - new,
\* common = old & new over the two extracted sets; so added and removed are
\* disjoint, common | added = new and common | removed = old.
C1_CompareSetAlgebra ==
    img_pc \in {"compared", "copied"} =>
        LET c == comparison
            universe == c.old_images \cup c.new_images \cup c.added_images
                        \cup c.removed_images \cup c.common_images
        IN  /\ c.old_images = extract_images_from_tex(old_tex, image_extensions)
            /\ c.new_images = extract_images_from_tex(new_tex, image_extensions)
            /\ \A x \in universe :
                /\ x \in c.added_images <=> (x \in c.new_images /\ x \notin c.old_images)
                /\ x \in c.removed_images <=> (x \in c.old_images /\ x \notin c.new_images)
                /\ x \in c.common_images <=> (x \in c.old_images /\ x \in c.new_images)
            /\ c.added_images \cap c.removed_images = {}
            /\ c.common_images \cup c.added_images = c.new_images
            /\ c.common_images \cup c.removed_images = c.old_images

\* C1 witness: a comparison with an added, a removed and a common image
C1_Witness ==
    /\ img_pc = "compared"
    /\ comparison.added_images # {}
    /\ comparison.removed_images # {}
    /\ comparison.common_images # {}

\* The citation command that starts at offset p of text, under any of the
\* patterns (a command two patterns match is one command)
CommandsAt(text, p) ==
    {m \in {CiteMatchAt(text, citation_patterns[i], p) : i \in 1..Len(citation_patterns)} : m.ok}

\* The keys of the command at offset p, left to right
KeysAt(text, p) ==
    IF CommandsAt(text, p) = {} THEN <<>>
    ELSE LET ks == KeysOfMatch(CHOOSE m \in CommandsAt(text, p) : TRUE)
         IN  [i \in 1..Len(ks) |-> ks[i].key]

\* The keys the citation commands of text cite from offset p on: command
\* after command by ascending offset, the keys of a command left to right
RECURSIVE KeysInDocumentOrder(_, _)
KeysInDocumentOrder(text, p) ==
    LET q == Find(text, <<"\\">>, p)
    IN  IF q = -1 THEN <<>>
        ELSE KeysAt(text, q) \o KeysInDocumentOrder(text, q + 1)

FirstIndex(seq, x) == CHOOSE i \in 1..Len(seq) : seq[i] = x /\ \A j \in 1..(i - 1) : seq[j] # x

NoDuplicates(seq) == \A i, j \in 1..Len(seq) : i # j => seq[i] # seq[j]

\* C2: after extract_citations_from_tex, unique_cited_keys holds every cited
\* key exactly once, ascending by the offset of the command that cites it
\* first, keys of one command left to right, whichever pattern matched;
\* \cite{b} followed by \citep{a,c} gives [b, a, c].
C2_UniqueKeysInOffsetOrder ==
    bib_last = "extract_citations_from_tex" =>
        LET t == bib_tex_content
            u == unique_cited_keys
            all == KeysInDocumentOrder(t, 0)
        IN  /\ NoDuplicates(u)
            /\ Range(u) = Range(all)
            /\ \A i, j \in 1..Len(u) : i < j =>
                    FirstIndex(all, u[i]) < FirstIndex(all, u[j])
            /\ t = <<"\\", "c", "i", "t", "e", "{", "b", "}", " ", "\\", "c", "i", "t", "e", "p", "{", "a", ",", "c", "}">> => u = <<<<"b">>, <<"a">>, <<"c">>>>

\* C2 witness: \citep{a,c} before \cite{b}: the second pattern's matches come
\* before the first pattern's in the document, and the keys are a, c, b
C2_Witness ==
    /\ bib_last = "extract_citations_from_tex"
    /\ bib_tex_content = <<"\\", "c", "i", "t", "e", "p", "{", "a", ",", "c", "}", "\\", "c", "i", "t", "e", "{", "b", "}", " ">>
    /\ unique_cited_keys = <<<<"a">>, <<"c">>, <<"b">>>>

\* seq lists exactly the elements of `from` that satisfy Keep, each once, in
\* the order they have in `from` (`from` has no duplicates)
IsOrderedSelection(seq, from, Keep(_)) ==
    /\ NoDuplicates(seq)
    /\ Range(seq) = {x \in Range(from) : Keep(x)}
    /\ \A i, j \in 1..Len(seq) : i < j => FirstIndex(from, seq[i]) < FirstIndex(from, seq[j])

\* C3: after analyze_citations, missing_keys is the unique cited keys that are
\* no bibliography key, in citation order without duplicates, and unused_keys
\* is the bibliography keys never cited, ascending; keys {a,b} and cited
\* [a,c] give missing [c] and unused [b].
C3_MissingAndUnused ==
    bib_last = "analyze_citations" =>
        /\ IsOrderedSelection(missing_keys, unique_cited_keys, LAMBDA k : k \notin bib_keys)
        /\ Range(unused_keys) = bib_keys \ Range(unique_cited_keys)
        /\ \A i \in 1..(Len(unused_keys) - 1) : StrLess(unused_keys[i], unused_keys[i + 1])
        /\ (bib_keys = {<<"a">>, <<"b">>} /\ unique_cited_keys = <<<<"a">>, <<"c">>>>) =>
                (missing_keys = <<<<"c">>>> /\ unused_keys = <<<<"b">>>>)

\* C3 witness: the example of the claim
C3_Witness ==
    /\ bib_last = "analyze_citations"
    /\ bib_keys = {<<"a">>, <<"b">>}
    /\ unique_cited_keys = <<<<"a">>, <<"c">>>>
    /\ missing_keys = <<<<"c">>>>
    /\ unused_keys = <<<<"b">>>>

\* C4: create_ordered_bib produces ordered_entries whose keys are
\* unique_cited_keys without the keys absent from the bibliography, in
\* citation order, each once, each with the entry text parse_bib_entries stored
C4_OrderedBibProjection ==
    bib_last = "create_ordered_bib" =>
        LET keys == [i \in 1..Len(ordered_entries) |-> ordered_entries[i].key]
        IN  /\ IsOrderedSelection(keys, unique_cited_keys, LAMBDA k : k \in bib_keys)
            /\ \A i \in 1..Len(ordered_entries) :
                ordered_entries[i].entry = bib_entries[ordered_entries[i].key]

\* C4 witness: three keys cited as b, a, c; c is not in the bibliography and
\* the entries come out as b, a
C4_Witness ==
    /\ bib_last = "create_ordered_bib"
    /\ unique_cited_keys = <<<<"b">>, <<"a">>, <<"c">>>>
    /\ Len(ordered_entries) = 2
    /\ ordered_entries[1].key = <<"b">>
    /\ ordered_entries[2].key = <<"a">>

\* The offsets at which the \appendix marker stands in tex
AppendixMarks(tex) ==
    {p \in 0..(Len(tex) - Len(AppendixCommand)) :
        /\ tex[p + 1] = AppendixCommand[1]
        /\ SubSeq(tex, p + 1, p + Len(AppendixCommand)) = AppendixCommand
        /\ (p + Len(AppendixCommand) = Len(tex)
            \/ tex[p + Len(AppendixCommand) + 1] \notin WordChars)}

\* A figure environment that starts before the first \appendix marker of tex,
\* or anywhere when tex has none
BeforeAppendix(tex, env) ==
    \A p \in AppendixMarks(tex) : env.position < p

\* C5: categorize_figures_by_position puts a figure environment in
\* main_figures if and only if it starts before the offset of the \appendix
\* marker and in appendix_figures otherwise; without a marker every
\* environment is in main_figures and appendix_figures is empty. Every
\* environment is in exactly one of the two lists and each list keeps the
\* order of figure_environments (document order).
C5_PartitionByAppendix ==
    fig_analyses >= 1 =>
        LET tex   == fig_tex_content
            envs  == figure_environments
            marks == AppendixMarks(tex)
            main  == {i \in 1..Len(envs) : \A p \in marks : envs[i].position < p}
            Place(i) == Cardinality({j \in 1..i : (j \in main) = (i \in main)})
        IN  /\ Len(main_figures) + Len(appendix_figures) = Len(envs)
            /\ Len(main_figures) = Cardinality(main)
            /\ \A i \in 1..Len(envs) :
                IF i \in main THEN main_figures[Place(i)] = envs[i]
                ELSE appendix_figures[Place(i)] = envs[i]
            /\ \A i \in 1..(Len(envs) - 1) : envs[i].position <= envs[i + 1].position
            /\ marks = {} => (appendix_figures = <<>> /\ main_figures = envs)

\* C5 witness: an analysed document with a figure on each side of \appendix
C5_Witness ==
    /\ fig_analyses >= 1
    /\ AppendixMarks(fig_tex_content) # {}
    /\ main_figures # <<>>
    /\ appendix_figures # <<>>
    /\ main_figures[Len(main_figures)].position < appendix_figures[1].position

\* The figure environments of the document tex that hold an image, in
\* document order
DocumentFigures(tex) == extract_figure_environments(tex, <<>>)

\* The label and the prefix of every image of the document, the images of
\* the main-text figures first: the n-th main-text figure is Fig n with
\* fig_n_, the n-th appendix figure Fig Sn with fig_sn_
NumberedImages(tex) ==
    LET figs == DocumentFigures(tex)
        Of(appendix) ==
            LET part == SelectSeq(figs, LAMBDA f : BeforeAppendix(tex, f) = ~appendix)
            IN  Flatten([n \in 1..Len(part) |->
                    [k \in 1..Len(part[n].images) |->
                        [label  |-> (IF appendix THEN <<"F", "i", "g", " ", "S">> ELSE <<"F", "i", "g", " ">>) \o IntToStr(n),
                         prefix |-> (IF appendix THEN <<"f", "i", "g", "_", "s">> ELSE <<"f", "i", "g", "_">>)
                                        \o IntToStr(n) \o <<"_">>,
                         path   |-> part[n].images[k].path]]])
    IN  Of(FALSE) \o Of(TRUE)

\* C6: analyze_all_figures numbers the main-text figure environments 1..N in
\* document order (label Fig n, prefix fig_n_) and the appendix figure
\* environments 1..M on their own (label Fig Sn, prefix fig_sn_), without gap
\* or repeat; the images of one environment carry its label. The plan holds
\* one entry per image of the document, with that label and prefix.
C6_NumberingInDocumentOrder ==
    fig_analyses >= 1 =>
        LET expected == NumberedImages(fig_tex_content)
        IN  /\ Len(results) = Len(expected)
            /\ \A i \in 1..Len(results) :
                /\ results[i].figure_label = expected[i].label
                /\ results[i].original_path = expected[i].path
                /\ StartsWith(extract_directory_and_filename(results[i].new_path)[2],
                              expected[i].prefix)

\* The prefix that goes with a figure label
PrefixOfLabel(label) ==
    IF StartsWith(label, <<"F", "i", "g", " ", "S">>)
    THEN <<"f", "i", "g", "_", "s">> \o Slice(label, 5, Len(label)) \o <<"_">>
    ELSE <<"f", "i", "g", "_">> \o Slice(label, 4, Len(label)) \o <<"_">>

\* The lengths k such that the first k characters of basename are fig_,
\* an optional s, one digit or more and _
NumberedPrefixLengths(basename) ==
    {k \in 6..Len(basename) :
        /\ StartsWith(basename, <<"f", "i", "g", "_">>)
        /\ basename[k] = "_"
        /\ LET digits == Slice(basename, IF basename[5] = "s" THEN 5 ELSE 4, k - 1)
           IN  digits # <<>> /\ \A i \in 1..Len(digits) : IsDigit(digits[i])}

\* The path the claim gives an image: the directory kept, the basename with
\* its numbered prefix replaced by `prefix`, or with `prefix` put before it
RenamedPath(path, prefix) ==
    LET cut      == IF \E i \in 1..Len(path) : path[i] = "/"
                    THEN CHOOSE i \in 1..Len(path) :
                            path[i] = "/" /\ \A j \in (i + 1)..Len(path) : path[j] # "/"
                    ELSE 0
        dir      == SubSeq(path, 1, cut)
        basename == SubSeq(path, cut + 1, Len(path))
        ks       == NumberedPrefixLengths(basename)
    IN  IF ks = {} THEN dir \o prefix \o basename
        ELSE dir \o prefix \o SubSeq(basename, MinOf(ks) + 1, Len(basename))

\* The images analyze_all_figures went through in its last call, in order
LastAnalysedImages ==
    LET figs == main_figures \o appendix_figures
    IN  Flatten([i \in 1..Len(figs) |-> figs[i].images])

\* C7: for each image the new path keeps the directory and replaces only the
\* basename: a prefix fig_<digits>_ or fig_s<digits>_ is stripped and the
\* expected prefix put in its place, otherwise the expected prefix is put
\* before the basename. needs_rename is (original_path differs from
\* new_path), and modifications holds a replacement for the image's command
\* if and only if needs_rename is true.
C7_NewPathAndModification ==
    fig_analyses >= 1 =>
        LET images == LastAnalysedImages
            first  == Len(results) - Len(images)
        IN  \A i \in 1..Len(images) :
                LET entry == results[first + i]
                IN  /\ entry.original_path = images[i].path
                    /\ entry.new_path =
                        RenamedPath(entry.original_path, PrefixOfLabel(entry.figure_label))
                    /\ entry.needs_rename = (entry.original_path # entry.new_path)
                    /\ (\E k \in 1..Len(modifications) :
                            modifications[k].old = images[i].full_command)
                        <=> entry.needs_rename

\* C8: a fresh processor on the text a run of the renamer
\* (analyze_all_figures, then save_modified_tex) wrote finds nothing to
\* rename: after its analyze_all_figures no entry has needs_rename and
\* modifications is empty.
C8_RenamerIdempotent ==
    (fig_rerun /\ fig_analyses = 1) =>
        /\ modifications = <<>>
        /\ \A i \in 1..Len(results) : ~results[i].needs_rename

\* The text tex with each span replaced by its new text, the spans taken
\* from the left; spans: the set of [at, len, new] still to apply
RECURSIVE Spliced(_, _, _)
Spliced(tex, spans, from) ==
    IF spans = {} THEN Slice(tex, from, Len(tex))
    ELSE LET s == CHOOSE s \in spans : \A r \in spans : s.at <= r.at
         IN  Slice(tex, from, s.at) \o s.new
                \o Spliced(tex, spans \ {s}, s.at + s.len)

\* The first occurrence in tex of each key of mods, with its replacement
SpansOf(tex, mods) ==
    {[at  |-> MinOf({p \in 0..Len(tex) :
                        /\ p + Len(mods[i].old) <= Len(tex)
                        /\ SubSeq(tex, p + 1, p + Len(mods[i].old)) = mods[i].old}),
      len |-> Len(mods[i].old),
      new |-> mods[i].new] : i \in 1..Len(mods)}

\* C9: the text save_modified_tex writes is tex_content with every key of
\* modifications replaced by its new text exactly once, at its first
\* occurrence in tex_content; the spans replaced do not overlap, a
\* replacement does not move or alter the span of another one (they are
\* applied from the highest offset to the lowest), and the text outside the
\* spans is that of tex_content.
C9_EachKeyReplacedOnce ==
    (fig_last = "save_modified_tex" /\ tex_saved) =>
        LET tex   == fig_tex_content
            spans == SpansOf(tex, modifications)
        IN  /\ \A i \in 1..Len(modifications) : Contains(tex, modifications[i].old)
            /\ \A i, j \in 1..Len(modifications) :
                    modifications[i].old = modifications[j].old => i = j
            /\ \A s, r \in spans : s = r \/ s.at + s.len <= r.at \/ r.at + r.len <= s.at
            /\ fig_out_text = Spliced(tex, spans, 0)

\* C9 witness: a text saved with two replacements of which the one on the
\* left writes the very command the one on the right replaces
C9_Witness ==
    /\ fig_last = "save_modified_tex"
    /\ tex_saved
    /\ \E i, j \in 1..Len(modifications) :
        /\ modifications[i].new = modifications[j].old
        /\ Find(fig_tex_content, modifications[i].old, 0)
            < Find(fig_tex_content, modifications[j].old, 0)
    /\ fig_out_text # fig_tex_content

\* The destination of item k of copy_and_rename_figures exists when the item
\* is processed: it was in the output directory before the call, or an
\* earlier item of the call copied to it
TargetExisted(k) ==
    \/ fig_copy_log[k].target \in DOMAIN fig_dst_before
    \/ \E j \in 1..(k - 1) :
        /\ fig_copy_log[j].target = fig_copy_log[k].target
        /\ fig_copy_log[j].line = "copied"

\* The files that were in a destination directory before a copy hold what
\* they held, in both copy operations
ExistingFilesUntouched ==
    /\ \A n \in DOMAIN img_dst_before : n \in DOMAIN img_dst /\ img_dst[n] = img_dst_before[n]
    /\ \A n \in DOMAIN fig_dst_before : n \in DOMAIN fig_dst /\ fig_dst[n] = fig_dst_before[n]

\* The statistics of copy_and_rename_figures count the lines of its log
StatsCountLog ==
    /\ copy_stats.copied = Cardinality({k \in 1..Len(fig_copy_log) : fig_copy_log[k].line = "copied"})
    /\ copy_stats.skipped = Cardinality({k \in 1..Len(fig_copy_log) : fig_copy_log[k].line = "skipped"})
    /\ copy_stats.failed = Cardinality({k \in 1..Len(fig_copy_log) :
                                fig_copy_log[k].line \in {"failed", "source not found"}})

\* C10 as stated: in copy_images and in copy_and_rename_figures an item whose
\* destination file exists when the item is processed is reported as
\* skipped, is not counted as copied or failed, and the destination file
\* keeps its content; no existing destination file is overwritten.
C10_ExistingDestinationSkipped ==
    /\ ExistingFilesUntouched
    /\ img_pc = "copied" =>
        \A k \in 1..Len(copy_log) :
            copy_log[k].image \in DOMAIN img_dst_before =>
                /\ copy_log[k].line = "skipped"
                /\ copy_log[k].image \notin Range(copy_result.copied)
                /\ copy_log[k].image \notin Range(copy_result.failed)
    /\ fig_last = "copy_and_rename_figures" =>
        /\ Len(fig_copy_log) = Len(results)
        /\ StatsCountLog
        /\ \A k \in 1..Len(fig_copy_log) :
            TargetExisted(k) => fig_copy_log[k].line = "skipped"

\* C10 amended: in both copy operations the source file is looked at first.
\* An item whose destination file exists when the item is processed is never
\* copied and the destination file keeps its content; if its source file
\* exists the item is reported as skipped and is not counted as copied,
\* failed or missing; if its source file does not exist the item is reported
\* as missing by copy_images and counted as failed by
\* copy_and_rename_figures. No existing destination file is overwritten: a
\* file copied by an item holds the content of that item's source.
C10_ExistingDestinationNeverOverwritten ==
    /\ ExistingFilesUntouched
    /\ img_pc = "copied" =>
        \A k \in 1..Len(copy_log) :
            LET image == copy_log[k].image
            IN  image \in DOMAIN img_dst_before =>
                    /\ image \notin Range(copy_result.copied)
                    /\ image \notin Range(copy_result.failed)
                    /\ IF image \in img_src
                       THEN /\ copy_log[k].line = "skipped"
                            /\ image \notin Range(copy_result.missing)
                       ELSE /\ copy_log[k].line = "missing"
                            /\ image \in Range(copy_result.missing)
    /\ fig_last = "copy_and_rename_figures" =>
        /\ Len(fig_copy_log) = Len(results)
        /\ StatsCountLog
        /\ \A k \in 1..Len(fig_copy_log) :
            /\ fig_copy_log[k].target = TargetName(results[k])
            /\ TargetExisted(k) =>
                IF results[k].original_path \in fig_src
                THEN fig_copy_log[k].line = "skipped"
                ELSE fig_copy_log[k].line = "source not found"
            /\ fig_copy_log[k].line = "copied" =>
                /\ ~TargetExisted(k)
                /\ fig_dst[fig_copy_log[k].target] = SrcContent(results[k].original_path)

\* C10 witness: copy_and_rename_figures has met a target that was in the
\* output directory before the call, and one that an earlier item of the
\* same call had copied; both sources exist and both items are skipped
C10_Witness ==
    /\ fig_last = "copy_and_rename_figures"
    /\ \E k, m \in 1..Len(fig_copy_log) :
        /\ fig_copy_log[k].target \in DOMAIN fig_dst_before
        /\ results[k].original_path \in fig_src
        /\ fig_copy_log[k].line = "skipped"
        /\ fig_copy_log[m].target \notin DOMAIN fig_dst_before
        /\ TargetExisted(m)
        /\ fig_copy_log[m].line = "skipped"
        /\ fig_dst[fig_copy_log[k].target] = OldContent(fig_copy_log[k].target)

\* The text after the last "/" of a path, said without os.path.basename: the
\* suffix that holds no "/" and starts the path or follows a "/"
NameOfPath(p) ==
    CHOOSE b \in {SubSeq(p, k, Len(p)) : k \in 1..(Len(p) + 1)} :
        /\ "/" \notin Range(b)
        /\ (Len(b) = Len(p) \/ p[Len(p) - Len(b)] = "/")

\* A filename written with an extension: it holds a "." after a character
\* that is not a "."
WrittenWithExtension(b) ==
    \E k \in 1..Len(b) : b[k] = "." /\ \E j \in 1..(k - 1) : b[j] # "."

\* The references one \includegraphics path stands for
ReferencesOf(raw, exts) ==
    LET b == NameOfPath(Strip(raw))
    IN  IF WrittenWithExtension(b) THEN {b} ELSE {b \o exts[i] : i \in 1..Len(exts)}

\* C11: extract_images_from_tex identifies an image by its basename only
\* (directory discarded, case kept): a path written with an extension
\* contributes exactly its basename, a path written without one contributes
\* exactly one filename per configured extension (stem + extension), and the
\* set extracted holds nothing else. figs/plot-like d/b with [.pdf, .png]
\* yields {b.pdf, b.png}; a.png and d/a.png are one reference; a.png and A.png
\* are two.
C11_BasenameAndExtensionFanOut ==
    img_pc = "compared" =>
        /\ comparison.old_images =
                UNION {ReferencesOf(old_tex[i], image_extensions) : i \in 1..Len(old_tex)}
        /\ comparison.new_images =
                UNION {ReferencesOf(new_tex[i], image_extensions) : i \in 1..Len(new_tex)}
        /\ \A n \in comparison.old_images \cup comparison.new_images : "/" \notin Range(n)
        /\ (old_tex = <<<<"d", "/", "b">>>> /\ image_extensions = <<<<".", "p", "d", "f">>, <<".", "p", "n", "g">>>>)
                => comparison.old_images = {<<"b", ".", "p", "d", "f">>, <<"b", ".", "p", "n", "g">>}
        /\ old_tex = <<<<"a", ".", "p", "n", "g">>, <<" ", "d", "/", "a", ".", "p", "n", "g", " ">>>> => comparison.old_images = {<<"a", ".", "p", "n", "g">>}
        /\ old_tex = <<<<"a", ".", "p", "n", "g">>, <<"e", "/", "A", ".", "p", "n", "g">>>> => comparison.old_images = {<<"a", ".", "p", "n", "g">>, <<"A", ".", "p", "n", "g">>}

\* C11 witness: a comparison of a document that names one image under two
\* directories and a path without extension
C11_Witness ==
    /\ img_pc = "compared"
    /\ old_tex = <<<<" ", "d", "/", "a", ".", "p", "n", "g", " ">>, <<"d", "/", "b">>>>
    /\ new_tex = <<<<"a", ".", "p", "n", "g">>>>
    /\ Len(image_extensions) = 2
    /\ Cardinality(comparison.old_images) = 3
    /\ comparison.common_images = {<<"a", ".", "p", "n", "g">>}

\* ------------------------------------------------------------------------
\* C12: the file save_ordered_bib writes, parsed again by parse_bib_entries,
\* gives exactly the keys of ordered_entries and for every key the entry
\* text that was written: the header lines and the separating blank lines
\* add no entry and change none.
\* ------------------------------------------------------------------------
C12_OrderedBibRoundTrip ==
    bib_saved = "True" =>
        LET reparsed == parse_bib_entries(bib_out_text)
        IN  /\ bib_out_written
            /\ DOMAIN reparsed = {ordered_entries[i].key : i \in 1..Len(ordered_entries)}
            /\ \A i \in 1..Len(ordered_entries) :
                   reparsed[ordered_entries[i].key] = ordered_entries[i].entry
            /\ Len(EntryFindAll(bib_out_text, 0)) = Len(ordered_entries)

C12_Witness ==
    /\ bib_saved = "True"
    /\ Len(ordered_entries) = 2
    /\ ordered_entries[1].key = <<"b">>
    /\ ordered_entries[2].entry = <<"@", "x", "{", "a", ",", "\n", " ", "t", "\n", "}">>
    /\ parse_bib_entries(bib_out_text)[<<"a">>] = <<"@", "x", "{", "a", ",", "\n", " ", "t", "\n", "}">>

\* ------------------------------------------------------------------------
\* C13: when the bibliography text defines a key more than once,
\* parse_bib_entries leaves one entry for the key, the text of the last
\* definition in the file, and bib_keys holds the key once.
\* ------------------------------------------------------------------------
DefinitionsOf(k, text) ==
    LET ms == EntryFindAll(text, 0)
    IN  SelectSeq([i \in 1..Len(ms) |-> ms[i]], LAMBDA e : Strip(e.key) = k)

C13_LastDefinitionWins ==
    (\/ bib_last = "parse_bib_entries"
     \/ bib_last = "execute_full_process" /\ bib_error = "none") =>
        /\ bib_keys = DOMAIN bib_entries
        /\ \A k \in bib_keys :
               LET defs == DefinitionsOf(k, bib_content)
               IN  /\ defs # <<>>
                   /\ bib_entries[k] = Strip(defs[Len(defs)].full_entry)
        /\ bib_content = <<"@", "x", "{", "a", ",", "\n", " ", "t", "\n", "}", "\n", "\n">> \o <<"%", " ", "n", "\n", "@", "z", "{", "a", ",", "v", "}", "\n">> =>
               bib_entries = (<<"a">> :> <<"@", "z", "{", "a", ",", "v", "}">>)
        /\ bib_content = <<"%", " ", "n", "\n", "@", "z", "{", "a", ",", "v", "}", "\n">> \o <<"@", "x", "{", "a", ",", "\n", " ", "t", "\n", "}", "\n", "\n">> =>
               bib_entries = (<<"a">> :> <<"@", "x", "{", "a", ",", "\n", " ", "t", "\n", "}">>)

C13_Witness ==
    /\ bib_last = "execute_full_process"
    /\ bib_content = <<"@", "x", "{", "a", ",", "\n", " ", "t", "\n", "}", "\n", "\n">> \o <<"%", " ", "n", "\n", "@", "z", "{", "a", ",", "v", "}", "\n">>
    /\ Len(DefinitionsOf(<<"a">>, bib_content)) = 2
    /\ bib_keys = {<<"a">>}
    /\ bib_entries[<<"a">>] = <<"@", "z", "{", "a", ",", "v", "}">>

\* ------------------------------------------------------------------------
\* C14: in every pipeline a missing input (a LaTeX or BibTeX file, the image
\* source directory) ends the run at once: no later step runs, no output
\* (ordered .bib, rewritten .tex, copied image) is written, and the caller
\* is told of the failure.
\* ------------------------------------------------------------------------
BibInputNotFoundFatal ==
    (bib_last = "execute_full_process" /\ ~(bib_tex_exists /\ bib_bib_exists)) =>
        /\ bib_returned = "False"
        /\ bib_error = (IF bib_tex_exists THEN "bib_file" ELSE "tex_file")
        /\ ~bib_out_written
        /\ bib_saved = "none"
        /\ cited_keys = <<>> /\ bib_entries = EmptyDir /\ ordered_entries = <<>>

FigInputNotFoundFatal ==
    (fig_last # "new" /\ ~fig_tex_exists) =>
        /\ fig_last = "raised"
        /\ fig_raised = "FileNotFoundError"
        /\ ~fig_out_written
        /\ fig_dst = EmptyDir
        /\ results = <<>> /\ fig_analyses = 0 /\ fig_returned = <<>>

ImgInputNotFoundFatal ==
    /\ (img_pc # "ready" /\ ~(img_old_exists /\ img_new_exists)) =>
            /\ img_pc = "raised"
            /\ img_raised = (IF img_old_exists THEN "new_tex" ELSE "old_tex")
            /\ comparison = NoComparison
    /\ (img_pc \in {"copied", "raised"} /\ ~img_src_dir_exists
            /\ img_old_exists /\ img_new_exists) =>
            /\ img_pc = "raised"
            /\ img_raised = "source_dir"
    /\ img_pc = "raised" =>
            /\ img_dst = EmptyDir
            /\ ~img_dst_dir_made
            /\ copy_result = NoCopyResult

C14_InputNotFoundFatal ==
    /\ BibInputNotFoundFatal
    /\ FigInputNotFoundFatal
    /\ ImgInputNotFoundFatal

\* ------------------------------------------------------------------------
\* C15: a failed write of the output file costs that file only. In
\* execute_full_processing and in execute_full_process the results computed
\* before the write (rename plan, missing and unused keys) stay valid and
\* are returned or reported, and the steps after the write still run.
\* ------------------------------------------------------------------------
BibWriteFailureCostsTheFileOnly ==
    (bib_last = "execute_full_process" /\ bib_error = "none"
        /\ ordered_entries # <<>> /\ bib_saved = "False") =>
        /\ bib_returned = "False"
        /\ ~bib_out_written
        /\ <<missing_keys, unused_keys>> = analyze_citations(unique_cited_keys, bib_keys)
        /\ ordered_entries = create_ordered_bib(unique_cited_keys, bib_entries)

FigWriteFailureCostsTheFileOnly ==
    fig_raised = "write" =>
        /\ ~fig_out_written
        /\ results = analyze_all_figures(fig_tex_file, <<>>, <<>>, <<>>).results
        /\ fig_returned = <<results>>
        /\ copy_stats.copied + copy_stats.skipped + copy_stats.failed = Len(results)

C15_WriteFailureCostsTheFileOnly ==
    /\ BibWriteFailureCostsTheFileOnly
    /\ FigWriteFailureCostsTheFileOnly

\* ------------------------------------------------------------------------
\* C16: a failure of one item does not end the operation. An image missing
\* from the source directory, a copy that raises, a command
\* save_modified_tex cannot find in the text: each is recorded (in missing
\* or failed, in stats and the lines logged, in the warning logged), the
\* operation returns its result, and every other item is still processed.
\* ------------------------------------------------------------------------
CopyImagesRecordsEachItem ==
    (img_pc = "copied" /\ comparison.added_images # {}) =>
        /\ {copy_log[k].image : k \in 1..Len(copy_log)} = comparison.added_images
        /\ Len(copy_log) = Cardinality(comparison.added_images)
        /\ copy_result.total_attempted = Cardinality(comparison.added_images)
        /\ \A image \in comparison.added_images :
            /\ image \notin img_src => image \in Range(copy_result.missing)
            /\ image \in img_copy_fails => image \in Range(copy_result.failed)
            /\ (image \in img_src /\ image \notin img_copy_fails
                    /\ image \notin DOMAIN img_dst_before) =>
                    /\ image \in Range(copy_result.copied)
                    /\ image \in DOMAIN img_dst
                    /\ img_dst[image] = SrcContent(image)

CopyFiguresRecordsEachItem ==
    fig_last = "copy_and_rename_figures" =>
        /\ Len(fig_copy_log) = Len(results)
        /\ copy_stats.copied + copy_stats.skipped + copy_stats.failed = Len(results)
        /\ copy_stats.failed =
               Cardinality({k \in 1..Len(results) :
                   \/ results[k].original_path \notin fig_src
                   \/ fig_copy_log[k].line = "failed"})
        /\ \A k \in 1..Len(results) :
            /\ results[k].original_path \notin fig_src =>
                    fig_copy_log[k].line = "source not found"
            /\ results[k].original_path \in fig_copy_fails =>
                    fig_copy_log[k].line \in {"failed", "skipped"}
            /\ (results[k].original_path \in fig_src
                    /\ results[k].original_path \notin fig_copy_fails) =>
                    /\ fig_copy_log[k].line \in {"copied", "skipped"}
                    /\ TargetName(results[k]) \in DOMAIN fig_dst

SaveWarnsAndGoesOn ==
    (fig_last = "save_modified_tex" /\ tex_saved) =>
        LET warned == Range(fig_save_log)
            olds   == {modifications[i].old : i \in 1..Len(modifications)}
        IN  /\ fig_out_written
            /\ warned \subseteq olds
            /\ Len(fig_save_log) = Cardinality(warned)
            /\ \A i \in 1..Len(modifications) :
                   IF modifications[i].old \in warned
                   THEN \E j \in 1..Len(modifications) :
                           /\ modifications[j].old \notin warned
                           /\ Contains(modifications[i].old, modifications[j].old)
                           /\ modifications[i].old # modifications[j].old
                   ELSE Contains(fig_out_text, modifications[i].new)

C16_WitnessCopyImages ==
    /\ img_pc = "copied"
    /\ copy_result.missing # <<>>
    /\ copy_result.copied # <<>>

\* ------------------------------------------------------------------------
\* C17: the rewritten document is written only when there is a replacement.
\* With modifications empty save_modified_tex writes no file and returns
\* False; with modifications not empty and the write succeeding it returns
\* True and the file is there.
\* ------------------------------------------------------------------------
C17_RewrittenTexOnlyWithModifications ==
    /\ fig_out_written => modifications # <<>>
    /\ fig_last \in {"save_modified_tex", "execute_full_processing"} =>
        /\ tex_saved = (modifications # <<>>)
        /\ fig_out_written = (modifications # <<>>)
        /\ modifications = <<>> => fig_out_text = <<>>
    /\ fig_raised = "write" => (~tex_saved /\ ~fig_out_written)

\* C17 witness: save_modified_tex has returned False on a document whose one
\* image carries the right prefix already, and nothing was written
C17_Witness ==
    /\ fig_last = "save_modified_tex"
    /\ fig_analyses = 1
    /\ Len(results) = 1
    /\ modifications = <<>>
    /\ ~tex_saved
    /\ ~fig_out_written

C17_WitnessSaved ==
    /\ fig_last = "save_modified_tex"
    /\ modifications # <<>>
    /\ tex_saved
    /\ fig_out_written

\* ------------------------------------------------------------------------
\* C18: the name of a citation command is matched without regard to case
\* (the document with its command names in lower case, or in upper case,
\* gives the same keys at the same places), and the keys are compared as
\* they are written: keys that differ in case only are different entries of
\* unique_cited_keys, and a cited key is looked up in the bibliography by
\* its exact text.
\* ------------------------------------------------------------------------
UpperChar(c) ==
    IF c \in Range(LowerCase) THEN UpperCase[CHOOSE i \in 1..26 : LowerCase[i] = c] ELSE c

\* the text with the letters that follow a backslash mapped by Case
CommandNamesRecased(text, Case(_)) ==
    LET Letters == Range(UpperCase) \cup Range(LowerCase)
        starts  == {j \in 1..Len(text) : text[j] = "\\"}
    IN  [i \in 1..Len(text) |->
            IF text[i] \in Letters
               /\ \E j \in starts : j < i /\ \A k \in (j + 1)..(i - 1) : text[k] \in Letters
            THEN Case(text[i])
            ELSE text[i]]

C18_CommandsWithoutCaseKeysWithCase ==
    /\ (\/ bib_last = "extract_citations_from_tex"
        \/ bib_last = "execute_full_process" /\ bib_error = "none") =>
        /\ <<cited_keys, unique_cited_keys>> =
               extract_citations_from_tex(CommandNamesRecased(bib_tex_content, LowerChar))
        /\ <<cited_keys, unique_cited_keys>> =
               extract_citations_from_tex(CommandNamesRecased(bib_tex_content, UpperChar))
        /\ Range(unique_cited_keys) = Range(cited_keys)
        /\ \A i, j \in 1..Len(unique_cited_keys) :
               unique_cited_keys[i] = unique_cited_keys[j] => i = j
        /\ bib_tex_content = <<"\\", "c", "i", "t", "e", "{", "b", "}", " ">> \o <<"\\", "C", "i", "t", "e", "t", "{", " ", "a", " ", ",", "B", "}">> =>
               unique_cited_keys = <<<<"b">>, <<"a">>, <<"B">>>>
    /\ (\/ bib_last = "analyze_citations"
        \/ bib_last = "execute_full_process" /\ bib_error = "none") =>
        \A i \in 1..Len(unique_cited_keys) :
            (unique_cited_keys[i] \in Range(missing_keys)) = (unique_cited_keys[i] \notin bib_keys)

\* C18 witness: \cite{b} and \Citet{ a ,B} cited, b in the bibliography and
\* B not: b and B are two cited keys and B is missing
C18_Witness ==
    /\ bib_last = "execute_full_process"
    /\ bib_tex_content = <<"\\", "c", "i", "t", "e", "{", "b", "}", " ">> \o <<"\\", "C", "i", "t", "e", "t", "{", " ", "a", " ", ",", "B", "}">>
    /\ unique_cited_keys = <<<<"b">>, <<"a">>, <<"B">>>>
    /\ <<"b">> \in bib_keys
    /\ <<"B">> \in Range(missing_keys)
    /\ <<"b">> \notin Range(missing_keys)

\* ------------------------------------------------------------------------
\* C19: save_ordered_bib with ordered_entries empty writes no file and
\* returns False. execute_full_process returns True exactly when the ordered
\* file was written, so a run whose inputs are there but in which no cited
\* key is in the bibliography returns False.
\* ------------------------------------------------------------------------
C19_NothingOrderedNothingSaved ==
    /\ (bib_last = "save_ordered_bib" /\ ordered_entries = <<>>) =>
            (bib_saved = "False" /\ ~bib_out_written /\ bib_out_text = <<>>)
    /\ bib_last = "execute_full_process" =>
        /\ (bib_returned = "True") = bib_out_written
        /\ bib_returned \in {"True", "False"}
        /\ (bib_error = "none" /\ Range(unique_cited_keys) \cap bib_keys = {}) =>
                /\ ordered_entries = <<>>
                /\ bib_returned = "False"
                /\ ~bib_out_written

\* C19 witness: both files there, keys cited and entries parsed, none of the
\* cited keys in the bibliography: the run has returned False without a file
C19_Witness ==
    /\ bib_last = "execute_full_process"
    /\ bib_error = "none"
    /\ unique_cited_keys # <<>>
    /\ bib_keys # {}
    /\ ordered_entries = <<>>
    /\ bib_returned = "False"
    /\ ~bib_out_written

C19_WitnessSaveOnNewProcessor ==
    /\ bib_last = "save_ordered_bib"
    /\ bib_tex_content = <<>>
    /\ ordered_entries = <<>>
    /\ bib_saved = "False"

\* ------------------------------------------------------------------------
\* C20: analyze_all_figures called again on the same processor (the usage
\* example calls it after execute_full_processing) leaves
\* figure_environments, results and the numbers of the figures as the first
\* call left them: no environment and no plan entry twice, no number changed.
\* ------------------------------------------------------------------------
C20_AnalysisRepeatable ==
    (fig_analyses >= 1 /\ fig_last \in {"analyze_all_figures", "execute_full_processing"}) =>
        LET first == analyze_all_figures(fig_tex_content, <<>>, <<>>, <<>>)
        IN  /\ figure_environments = first.figure_environments
            /\ results = first.results
            /\ \A i, j \in 1..Len(figure_environments) :
                   figure_environments[i].position = figure_environments[j].position
                       => i = j

\* ------------------------------------------------------------------------
\* C21
\* ------------------------------------------------------------------------

\* The image commands of the figure environments of the document tex, in
\* document order
ImagesOfDocument(tex) ==
    LET figs == DocumentFigures(tex)
    IN  Flatten([i \in 1..Len(figs) |-> figs[i].images])

\* C21: after one analyze_all_figures and save_modified_tex the plan and the
\* text written agree: the text written holds as many image commands in
\* figure environments as the plan has entries, and for every entry with
\* needs_rename the command at the entry's place (the i-th command for the
\* i-th entry) references the entry's new_path, also when two figure
\* environments hold the byte-identical command.
C21_PlanTextConsistency ==
    (fig_last = "save_modified_tex" /\ tex_saved /\ fig_analyses = 1) =>
        LET written == ImagesOfDocument(fig_out_text)
        IN  /\ Len(written) = Len(results)
            /\ \A i \in 1..Len(results) :
                    results[i].needs_rename => written[i].path = results[i].new_path

\* ------------------------------------------------------------------------
\* C22
\* ------------------------------------------------------------------------

\* C22: after extract_citations_from_tex the raw sequence cited_keys holds
\* one element per non-empty trimmed key token per citation command of the
\* document, duplicates across commands kept, the commands by ascending
\* offset and the keys of a command left to right; its length is the number
\* of such tokens.
C22_CitedKeysOncePerToken ==
    bib_last = "extract_citations_from_tex" =>
        /\ cited_keys = KeysInDocumentOrder(bib_tex_content, 0)
        /\ Len(cited_keys) = Len(KeysInDocumentOrder(bib_tex_content, 0))

\* ------------------------------------------------------------------------
\* C23
\* ------------------------------------------------------------------------

\* C23: in copy_and_rename_figures (after one analysis) plan entries with
\* different original paths never have the same target file in the output
\* directory; so, when the output directory was empty and no copy raised,
\* every plan entry whose source file exists is counted as copied and its
\* target file holds the content of that source: none is skipped because an
\* earlier entry of the same run created the target.
C23_DistinctTargets ==
    (fig_last = "copy_and_rename_figures" /\ fig_analyses = 1) =>
        /\ \A i, j \in 1..Len(results) :
                results[i].original_path # results[j].original_path =>
                    TargetName(results[i]) # TargetName(results[j])
        /\ (fig_dst_before = EmptyDir /\ fig_copy_fails = {}) =>
                \A i \in 1..Len(results) :
                    results[i].original_path \in fig_src =>
                        /\ fig_copy_log[i].line = "copied"
                        /\ TargetName(results[i]) \in DOMAIN fig_dst
                        /\ fig_dst[TargetName(results[i])] = SrcContent(results[i].original_path)

\* ------------------------------------------------------------------------
\* C24
\* ------------------------------------------------------------------------

\* C24: in the CopyResult of copy_images the lists copied, missing and
\* failed are pairwise disjoint, hold images of the input set only and none
\* twice; total_attempted is the size of the input set; an input image is in
\* none of the three lists exactly when its source exists and its
\* destination existed before the call (it was skipped), so that
\* total_attempted = |copied| + |missing| + |failed| + the number skipped.
C24_CopyResultPartition ==
    (img_pc = "copied" /\ comparison.added_images # {}) =>
        LET image_list == comparison.added_images
            copied  == Range(copy_result.copied)
            missing == Range(copy_result.missing)
            failed  == Range(copy_result.failed)
            skipped == {image \in image_list :
                            image \in img_src /\ image \in DOMAIN img_dst_before}
        IN  /\ copied \cap missing = {}
            /\ copied \cap failed = {}
            /\ missing \cap failed = {}
            /\ (copied \cup missing \cup failed) \subseteq image_list
            /\ copy_result.total_attempted = Cardinality(image_list)
            /\ \A image \in image_list :
                    (image \notin (copied \cup missing \cup failed)) <=> (image \in skipped)
            /\ copy_result.total_attempted =
                    Len(copy_result.copied) + Len(copy_result.missing)
                        + Len(copy_result.failed) + Cardinality(skipped)

\* C24 witness: a copy of two images of which one is copied and the other,
\* its source and its destination both there, is in none of the lists
C24_Witness ==
    /\ img_pc = "copied"
    /\ copy_result.total_attempted = 2
    /\ Len(copy_result.copied) = 1
    /\ \E image \in comparison.added_images :
        /\ image \in img_src
        /\ image \in DOMAIN img_dst_before
        /\ image \notin Range(copy_result.copied)
        /\ image \notin Range(copy_result.missing)
        /\ image \notin Range(copy_result.failed)

\* C24 witness: a copy of two images of which one is missing from the
\* source directory, its destination file there, and the other fails or is
\* copied
C24_WitnessMissing ==
    /\ img_pc = "copied"
    /\ copy_result.total_attempted = 2
    /\ \E image \in comparison.added_images :
        /\ image \notin img_src
        /\ image \in DOMAIN img_dst_before
        /\ copy_result.missing = <<image>>

\* ------------------------------------------------------------------------
\* C25
\* ------------------------------------------------------------------------

\* C25: after extract_citations_from_tex, parse_bib_entries,
\* analyze_citations and create_ordered_bib have run in that order (as
\* execute_full_process runs them), missing_keys and the keys of
\* ordered_entries partition unique_cited_keys: every unique cited key is in
\* exactly one of the two, len(missing_keys) + len(ordered_entries) =
\* len(unique_cited_keys), and no key of unused_keys is in ordered_entries.
C25_MissingAndOrderedPartitionCited ==
    (bib_last = "execute_full_process" /\ bib_error = "none") =>
        LET ordered == {ordered_entries[i].key : i \in 1..Len(ordered_entries)}
            missing == Range(missing_keys)
        IN  /\ missing \cap ordered = {}
            /\ missing \cup ordered = Range(unique_cited_keys)
            /\ \A i \in 1..Len(unique_cited_keys) :
                    (unique_cited_keys[i] \in missing) # (unique_cited_keys[i] \in ordered)
            /\ Len(missing_keys) + Len(ordered_entries) = Len(unique_cited_keys)
            /\ Range(unused_keys) \cap ordered = {}

\* C25 witness: a run with a key that is missing, a key that is ordered and
\* a bibliography key that is not used
C25_Witness ==
    /\ bib_last = "execute_full_process"
    /\ bib_error = "none"
    /\ missing_keys # <<>>
    /\ ordered_entries # <<>>
    /\ unused_keys # <<>>
    /\ Len(unique_cited_keys) >= 3

\* ------------------------------------------------------------------------
\* C26
\* ------------------------------------------------------------------------

\* C26: generate_new_filename is idempotent and renumbering composes: for
\* every filename extract_directory_and_filename returns (the empty one of
\* a path that ends with "/" too) and expected prefixes p1, p2 of the form
\* fig_<n>_ or fig_s<n>_, generate_new_filename(generate_new_filename(f, p1), p2)
\* = generate_new_filename(f, p2); with p1 = p2 the second call returns what
\* the first returned.
C26_RenumberingComposes ==
    Len(gen_prefixes) = 2 =>
        /\ gen_new_filenames[2] = generate_new_filename(gen_filename, gen_prefixes[2])
        /\ gen_prefixes[1] = gen_prefixes[2] => gen_new_filenames[2] = gen_new_filenames[1]

=============================================================================
